---- MODULE Spec2Model ----
(***************************************************************************)
(* PyFactory: the mini-language parser (code_parser.py) and the Factory    *)
(* graph container (game_engine.py, machines.py), as state machines.       *)
(*                                                                         *)
(* The specifications share the variables:                                 *)
(*   SpecParse  one call of CodeParser.parse, one loop iteration per step  *)
(*   Spec       Factory.add_machine / remove_machine / connect / clear on  *)
(*              a heap of machine objects                                  *)
(*   SpecDict   building a factory, then to_dict / from_dict               *)
(*   SpecSim    building a factory, then start / stop / update (the tick)  *)
(*   SpecGoal   the frames of a started source-to-output line              *)
(*   SpecSplit  shapes fed to a splitter with one connected port           *)
(*   SpecRun    start / stop / reset / update of two built factories       *)
(*   SpecPack   the packer line with package_type list or tuple            *)
(*   SpecEdit   the editor's code-change handler on the factory            *)
(*   SpecShape  rotate / paint / clone / matches on one shape              *)
(*   SpecLevel  a Level: setup, wiring, start, update, reset               *)
(*   SpecMach   one machine fed by hand, wired to an output                *)
(*   SpecStack  a stacker fed on both of its ports                         *)
(*   SpecRoute  a splitter or conveyor with up to MaxOuts connections      *)
(*   SpecLine   source, conveyor, rotator, output in both update orders    *)
(*   SpecTick   building, starting, setting the speed and updating         *)
(*   SpecOut    an output that is fed, given targets, updated and reset    *)
(*   SpecGroup  a packer of pack size 1, 2 or 3 wired to an output         *)
(*   SpecComp   a comprehension machine handed filled packages             *)
(*   SpecBuild  a parse, then the rebuild of the factory from its result   *)
(*   SpecRedecl the parse of scripts that assign a variable twice          *)
(*   SpecTurn   scripts with a rotator, built by the handler and run       *)
(*   SpecFlow   factories of pass-through machines: line, fan-in, ring     *)
(*   SpecStore  a conveyor wired on one port or another, updated, reset    *)
(*   SpecCut    a cutter in front of an output that has a target           *)
(*   SpecEngine the GameEngine: login, load_level, update, reset           *)
(***************************************************************************)
EXTENDS Integers, Sequences, FiniteSets, TLC

(***************************************************************************)
(* Bounds of the model.                                                    *)
(***************************************************************************)
MaxLines == 3

None == "<None>"

\* the mapping g with the entries of f written over it
Over(f, g) ==
    [k \in DOMAIN f \cup DOMAIN g |-> IF k \in DOMAIN f THEN f[k] ELSE g[k]]

(***************************************************************************)
(* Source text.  A script is a sequence of lines (code.split('\n')); a     *)
(* line is a sequence of tokens.  A token records its class and its text:  *)
(*   "w"  a run of \w characters (identifier, type name, number)           *)
(*   "s"  punctuation: =  (  )  ,  and the text .connect                   *)
(*   "q"  a quoted string literal, v being the text between the quotes     *)
(*   "b"  a bare literal that is not a \w run (-90)                        *)
(*   "sp" white space        "c"  a # and the comment after it             *)
(* Two "w" tokens are never adjacent in a line of the library.             *)
(***************************************************************************)
W(s) == [t |-> "w", v |-> s]
Sy(s) == [t |-> "s", v |-> s]
Q(s) == [t |-> "q", v |-> s]
B(s) == [t |-> "b", v |-> s]
SP == [t |-> "sp", v |-> " "]
Hash(s) == [t |-> "c", v |-> s]

EQ == Sy("=")
LP == Sy("(")
RP == Sy(")")
COMMA == Sy(",")
DOTCONNECT == Sy(".connect")

\* name = Type(args)
AssignLine(name, type, args) == <<W(name), SP, EQ, SP, W(type), LP>> \o args \o <<RP>>
\* a.connect(b)
ConnectLine(a, b) == <<W(a), DOTCONNECT, LP, W(b), RP>>

LineLib ==
    { AssignLine("a", "Source", <<Q("circle"), COMMA, SP, Q("white")>>),
      AssignLine("b", "Output", <<>>),
      AssignLine("a", "Rotator", <<W("180")>>),
      AssignLine("b", "ROTATOR", <<Q("fast")>>),
      AssignLine("b", "painter", <<W("blue")>>),
      AssignLine("c", "Conveyor", <<>>),
      AssignLine("c", "Widget", <<>>),
      AssignLine("b", "Painter", <<Q(".connect")>>),
      AssignLine("a", "Source", <<>>) \o <<SP, W("junk")>>,
      <<W("a"), EQ, W("Source")>>,
      ConnectLine("a", "b"),
      ConnectLine("b", "a"),
      ConnectLine("a", "c"),
      <<W("a"), DOTCONNECT, SP, LP, W("b"), RP>>,
      <<W("a"), DOTCONNECT, LP, RP>>,
      <<SP>>,
      <<SP, Hash("comment = x.connect(y)")>>,
      <<W("foo")>> }

(***************************************************************************)
(* String functions of Python, as far as the parser uses them.             *)
(***************************************************************************)
RECURSIVE LStrip(_)
LStrip(line) ==
    IF line # <<>> /\ Head(line) = SP THEN LStrip(Tail(line)) ELSE line

RECURSIVE RStrip(_)
RStrip(line) ==
    IF line # <<>> /\ line[Len(line)] = SP
    THEN RStrip(SubSeq(line, 1, Len(line) - 1))
    ELSE line

\* str.strip()
Strip(line) == RStrip(LStrip(line))

\* line.startswith('#')
StartsWithHash(line) == line # <<>> /\ line[1].t = "c"

\* '=' in line: the = sign, or a comment or string whose text holds one
TextHasEq(tok) ==
    \/ tok = EQ
    \/ tok.t \in {"c", "q"} /\ tok.v \in {"comment = x.connect(y)"}

\* '.connect' in line
TextHasDotConnect(tok) ==
    \/ tok = DOTCONNECT
    \/ tok.t \in {"c", "q"} /\ tok.v \in {"comment = x.connect(y)", ".connect"}

HasEq(line) == \E i \in 1..Len(line) : TextHasEq(line[i])

HasDotConnect(line) == \E i \in 1..Len(line) : TextHasDotConnect(line[i])

\* '.connect(' in line: the parenthesis follows the text directly
HasDotConnectParen(line) ==
    \/ \E i \in 1..(Len(line) - 1) : line[i] = DOTCONNECT /\ line[i + 1] = LP
    \/ \E i \in 1..Len(line) : line[i].t \in {"c", "q"} /\ line[i].v \in {"comment = x.connect(y)"}

\* str.lower() on the type names of the library
Lower(s) ==
    CASE s \in {"Source", "SOURCE", "source"} -> "source"
      [] s \in {"Output", "output"} -> "output"
      [] s \in {"Rotator", "ROTATOR", "rotator"} -> "rotator"
      [] s \in {"Painter", "painter"} -> "painter"
      [] s \in {"Conveyor", "conveyor"} -> "conveyor"
      [] s \in {"Widget", "widget"} -> "widget"
      [] OTHER -> s

\* int(s) for a string s: the literals Python accepts, else ValueError
IntLiterals == {"90", "180", "270", "-90", "45"}

IntOf(s) ==
    CASE s = "90" -> 90
      [] s = "180" -> 180
      [] s = "270" -> 270
      [] s = "-90" -> 0 - 90
      [] s = "45" -> 45

\* index of the first token at or after i that is not white space
RECURSIVE SkipSp(_, _)
SkipSp(line, i) ==
    IF i <= Len(line) /\ line[i] = SP THEN SkipSp(line, i + 1) ELSE i

TokAt(line, i) == IF i >= 1 /\ i <= Len(line) THEN line[i] ELSE [t |-> "eol", v |-> ""]

\* position of the last ) of the line, 0 when there is none
LastRP(line) ==
    IF \E i \in 1..Len(line) : line[i] = RP
    THEN CHOOSE i \in 1..Len(line) :
            line[i] = RP /\ \A j \in (i + 1)..Len(line) : line[j] # RP
    ELSE 0

(***************************************************************************)
(* The re.match of _parse_assignment: a word, =, a word, an opening        *)
(* parenthesis, any text, a closing parenthesis, white space allowed       *)
(* around = and before the parenthesis.  The match is anchored at the      *)
(* start, not at the end; the any-text group is greedy and runs to the     *)
(* last closing parenthesis of the line.  ok is FALSE for no match.        *)
(***************************************************************************)
MatchAssignment(line) ==
    LET iEq == SkipSp(line, 2)
        iTy == SkipSp(line, iEq + 1)
        iLp == SkipSp(line, iTy + 1)
        iRp == LastRP(line)
    IN  IF /\ TokAt(line, 1).t = "w"
           /\ TokAt(line, iEq) = EQ
           /\ TokAt(line, iTy).t = "w"
           /\ TokAt(line, iLp) = LP
           /\ iRp > iLp
        THEN [ok |-> TRUE, g1 |-> line[1].v, g2 |-> line[iTy].v,
              g3 |-> SubSeq(line, iLp + 1, iRp - 1)]
        ELSE [ok |-> FALSE]

(***************************************************************************)
(* The re.match of _parse_connection: a word, .connect directly after it,  *)
(* an opening parenthesis, a word, a closing parenthesis, white space      *)
(* allowed before and inside the parentheses.                              *)
(***************************************************************************)
MatchConnection(line) ==
    LET iLp == SkipSp(line, 3)
        iTo == SkipSp(line, iLp + 1)
        iRp == SkipSp(line, iTo + 1)
    IN  IF /\ TokAt(line, 1).t = "w"
           /\ TokAt(line, 2) = DOTCONNECT
           /\ TokAt(line, iLp) = LP
           /\ TokAt(line, iTo).t = "w"
           /\ TokAt(line, iRp) = RP
        THEN [ok |-> TRUE, g1 |-> line[1].v, g2 |-> line[iTo].v]
        ELSE [ok |-> FALSE]

(***************************************************************************)
(* CodeParser._parse_args: split on ',', strip each part, drop one pair of *)
(* quotes.  The dict {0: .., 1: ..} is the sequence of its values.         *)
(***************************************************************************)
RECURSIVE SplitComma(_)
SplitComma(toks) ==
    IF \E i \in 1..Len(toks) : toks[i] = COMMA
    THEN LET i == CHOOSE k \in 1..Len(toks) :
                    toks[k] = COMMA /\ \A j \in 1..(k - 1) : toks[j] # COMMA
         IN  <<SubSeq(toks, 1, i - 1)>> \o SplitComma(SubSeq(toks, i + 1, Len(toks)))
    ELSE <<toks>>

\* the text of one stripped part, its quotes removed
PartText(part) == IF part = <<>> THEN "" ELSE part[1].v

ParseArgs(args_str) ==
    IF Strip(args_str) = <<>>
    THEN <<>>
    ELSE LET parts == SplitComma(args_str)
         IN  [i \in 1..Len(parts) |-> PartText(Strip(parts[i]))]

\* args.get(i, default), i counted from 0
ArgsGet(args, i, default) == IF i + 1 <= Len(args) THEN args[i + 1] ELSE default

(***************************************************************************)
(* CodeParser._get_machine_type: the parser's type_map                     *)
(***************************************************************************)
TypeMap == {"source", "painter", "rotator", "splitter", "output", "looper",
            "function", "packer"}

(***************************************************************************)
(* State of one CodeParser, and of the call of parse in progress.          *)
(*   code           the lines of the text given to parse                   *)
(*   pc             "parse" inside the loop, "done" after the return,      *)
(*                  "idle" when parse is not called                        *)
(*   line_num       0-based index of the line the loop is at               *)
(*   p_machines     self.machines      p_connections  self.connections     *)
(*   variables      self.variables     error, error_line                   *)
(*   machine_x      the automatic layout position                          *)
(* error is a pair <<message, argument>>; NoError stands for None.         *)
(***************************************************************************)
VARIABLES code, pc, line_num, p_machines, p_connections, variables, error,
          error_line, machine_x

(***************************************************************************)
(* State of the object graph.                                              *)
(*   heap     the Machine objects constructed so far; a machine is named   *)
(*            by its position in heap (its identity)                       *)
(*   conns    the Connection objects constructed so far, named likewise    *)
(*   factory  the Factory: machines, connections, grid, running            *)
(*   shapes   the Shape objects constructed so far, named likewise; an     *)
(*            item in a buffer or in transit is the name of its Shape      *)
(*   op       the last call made on the factory: name, arguments, result   *)
(*   is_completed  the flag of the Level that owns the factory             *)
(*   engine   the GameEngine: mode, current_user, whether current_level is *)
(*            set, and the number of calls of db.update_progress           *)
(***************************************************************************)
VARIABLES heap, conns, factory, shapes, op, is_completed, engine

graphVars == <<heap, conns, factory, shapes, op, is_completed, engine>>

parserVars == <<code, pc, line_num, p_machines, p_connections, variables,
                error, error_line, machine_x>>

NoError == <<None, "">>
SyntaxError == <<"syntax error", "">>
ConnectSyntaxError == <<"connection syntax error", "">>
UndefinedVariable(name) == <<"undefined variable", name>>
UnknownMachineType(name) == <<"unknown machine type", name>>
InvalidIntLiteral(text) == <<"invalid literal for int()", text>>

EmptyDict == [n \in {} |-> 0]

\* the kind-specific keys _parse_assignment adds to the machine entry
KindFields(machine_type, args) ==
    CASE machine_type = "source" ->
            [shape_type |-> ArgsGet(args, 0, "circle"),
             color |-> ArgsGet(args, 1, "white")]
      [] machine_type = "painter" ->
            [target_color |-> ArgsGet(args, 0, "red")]
      [] machine_type = "rotator" ->
            [rotation |-> IF args = <<>> THEN 90 ELSE IntOf(args[1])]
      [] OTHER -> EmptyDict

\* _parse_assignment appending the entry before it converts the arguments
ParseAssignmentAppendFirst(line, ln, x_pos, ms, vs) ==
    LET m == MatchAssignment(line)
        machine_type == Lower(m.g2)
        args == ParseArgs(m.g3)
        base == [var_name |-> m.g1, type |-> machine_type, x |-> x_pos,
                 y |-> 3, args |-> args, line |-> ln]
    IN  IF ~m.ok
        THEN [error |-> SyntaxError, machines |-> ms, variables |-> vs]
        ELSE IF machine_type \notin TypeMap
        THEN [error |-> UnknownMachineType(machine_type), machines |-> ms,
              variables |-> vs]
        ELSE IF machine_type = "rotator" /\ args # <<>> /\ args[1] \notin IntLiterals
        THEN [error |-> InvalidIntLiteral(args[1]), machines |-> Append(ms, base),
              variables |-> vs]
        ELSE [error |-> NoError,
              machines |-> Append(ms, Over(base, KindFields(machine_type, args))),
              variables |-> Over(m.g1 :> Len(ms), vs)]

\* _parse_assignment that leaves the table entry of a name that has one
ParseAssignmentKeepsFirst(line, ln, x_pos, ms, vs) ==
    LET m == MatchAssignment(line)
        machine_type == Lower(m.g2)
        args == ParseArgs(m.g3)
        config == Over([var_name |-> m.g1, type |-> machine_type, x |-> x_pos,
                        y |-> 3, args |-> args, line |-> ln],
                       KindFields(machine_type, args))
    IN  IF ~m.ok
        THEN [error |-> SyntaxError, machines |-> ms, variables |-> vs]
        ELSE IF machine_type \notin TypeMap
        THEN [error |-> UnknownMachineType(machine_type), machines |-> ms,
              variables |-> vs]
        ELSE IF machine_type = "rotator" /\ args # <<>> /\ args[1] \notin IntLiterals
        THEN [error |-> InvalidIntLiteral(args[1]), machines |-> ms,
              variables |-> vs]
        ELSE [error |-> NoError, machines |-> Append(ms, config),
              variables |-> Over(vs, m.g1 :> Len(ms))]

\* _parse_assignment that puts every machine at x = 1
ParseAssignmentSameCell(line, ln, x_pos, ms, vs) ==
    LET m == MatchAssignment(line)
        machine_type == Lower(m.g2)
        args == ParseArgs(m.g3)
        config == Over([var_name |-> m.g1, type |-> machine_type, x |-> 1,
                        y |-> 3, args |-> args, line |-> ln],
                       KindFields(machine_type, args))
    IN  IF ~m.ok
        THEN [error |-> SyntaxError, machines |-> ms, variables |-> vs]
        ELSE IF machine_type \notin TypeMap
        THEN [error |-> UnknownMachineType(machine_type), machines |-> ms,
              variables |-> vs]
        ELSE IF machine_type = "rotator" /\ args # <<>> /\ args[1] \notin IntLiterals
        THEN [error |-> InvalidIntLiteral(args[1]), machines |-> ms,
              variables |-> vs]
        ELSE [error |-> NoError, machines |-> Append(ms, config),
              variables |-> Over(m.g1 :> Len(ms), vs)]

(***************************************************************************)
(* CodeParser._parse_assignment.  The result holds the exception raised    *)
(* (NoError when none) and self.machines, self.variables as it leaves them.*)
(***************************************************************************)
ParseAssignment(line, ln, x_pos, ms, vs) ==
    LET m == MatchAssignment(line)
        machine_type == Lower(m.g2)
        args == ParseArgs(m.g3)
        config == Over([var_name |-> m.g1, type |-> machine_type, x |-> x_pos,
                        y |-> 3, args |-> args, line |-> ln],
                       KindFields(machine_type, args))
    IN  IF ~m.ok
        THEN [error |-> SyntaxError, machines |-> ms, variables |-> vs]
        ELSE IF machine_type \notin TypeMap
        THEN [error |-> UnknownMachineType(machine_type), machines |-> ms,
              variables |-> vs]
        ELSE IF machine_type = "rotator" /\ args # <<>> /\ args[1] \notin IntLiterals
        THEN [error |-> InvalidIntLiteral(args[1]), machines |-> ms,
              variables |-> vs]
        ELSE [error |-> NoError, machines |-> Append(ms, config),
              variables |-> Over(m.g1 :> Len(ms), vs)]

\* _parse_connection looking the target up with a default instead of
\* checking it
ParseConnectionNoTargetCheck(line, cs, vs) ==
    LET m == MatchConnection(line)
    IN  IF ~m.ok
        THEN [error |-> ConnectSyntaxError, connections |-> cs]
        ELSE IF m.g1 \notin DOMAIN vs
        THEN [error |-> UndefinedVariable(m.g1), connections |-> cs]
        ELSE [error |-> NoError,
              connections |-> Append(cs, <<vs[m.g1],
                                 IF m.g2 \in DOMAIN vs THEN vs[m.g2] ELSE 0>>)]

(***************************************************************************)
(* CodeParser._parse_connection.                                           *)
(***************************************************************************)
ParseConnection(line, cs, vs) ==
    LET m == MatchConnection(line)
    IN  IF ~m.ok
        THEN [error |-> ConnectSyntaxError, connections |-> cs]
        ELSE IF m.g1 \notin DOMAIN vs
        THEN [error |-> UndefinedVariable(m.g1), connections |-> cs]
        ELSE IF m.g2 \notin DOMAIN vs
        THEN [error |-> UndefinedVariable(m.g2), connections |-> cs]
        ELSE [error |-> NoError,
              connections |-> Append(cs, <<vs[m.g1], vs[m.g2]>>)]

\* how the loop body of parse classifies a stripped line
LineClass(line) ==
    IF line = <<>> \/ StartsWithHash(line) THEN "skip"
    ELSE IF HasEq(line) /\ ~HasDotConnect(line) THEN "assignment"
    ELSE IF HasDotConnectParen(line) THEN "connection"
    ELSE "ignored"

\* the scripts given to parse: code.split('\n') has at least one line
Scripts == UNION { [1..n -> LineLib] : n \in 1..MaxLines }

\* CodeParser.__init__, and the locals of parse at its start
ParserNew ==
    /\ line_num = 0
    /\ p_machines = <<>>
    /\ p_connections = <<>>
    /\ variables = EmptyDict
    /\ error = NoError
    /\ error_line = 0 - 1
    /\ machine_x = 1

\* where the loop goes after an iteration that raised nothing
Advance == 
    /\ line_num' = line_num + 1
    /\ pc' = IF line_num + 1 = Len(code) THEN "done" ELSE "parse"
    /\ UNCHANGED <<error, error_line>>

\* the except clause: record the error and leave the loop
Fail(e) ==
    /\ error' = e
    /\ error_line' = line_num
    /\ pc' = "done"
    /\ UNCHANGED line_num

(***************************************************************************)
(* One iteration of the loop of CodeParser.parse, the return included      *)
(* when it is the last.                                                    *)
(***************************************************************************)
ParseLine ==
    /\ pc = "parse"
    /\ line_num < Len(code)
    /\ UNCHANGED code
    /\ LET line == Strip(code[line_num + 1])
           class == LineClass(line)
           ra == ParseAssignment(line, line_num, machine_x, p_machines, variables)
           rc == ParseConnection(line, p_connections, variables)
       IN  CASE class = "assignment" ->
                    /\ p_machines' = ra.machines
                    /\ variables' = ra.variables
                    /\ UNCHANGED p_connections
                    /\ IF ra.error = NoError
                       THEN machine_x' = machine_x + 2 /\ Advance
                       ELSE UNCHANGED machine_x /\ Fail(ra.error)
             [] class = "connection" ->
                    /\ p_connections' = rc.connections
                    /\ UNCHANGED <<p_machines, variables, machine_x>>
                    /\ IF rc.error = NoError THEN Advance ELSE Fail(rc.error)
             [] OTHER ->
                    /\ UNCHANGED <<p_machines, p_connections, variables, machine_x>>
                    /\ Advance

(***************************************************************************)
(* CodeParser.parse as one call: the attributes and locals of the parser   *)
(* when parse returns.                                                     *)
(***************************************************************************)
ParserStart ==
    [line_num |-> 0, machines |-> <<>>, connections |-> <<>>,
     variables |-> EmptyDict, error |-> NoError, error_line |-> 0 - 1,
     machine_x |-> 1]

\* the iteration of the loop for an assignment line, ra being what
\* _parse_assignment did
AfterAssignment(p, ra) ==
    IF ra.error = NoError
    THEN [p EXCEPT !.machines = ra.machines, !.variables = ra.variables,
                   !.machine_x = @ + 2, !.line_num = @ + 1]
    ELSE [p EXCEPT !.machines = ra.machines, !.variables = ra.variables,
                   !.error = ra.error, !.error_line = p.line_num]

\* the iteration of the loop for a connect line
AfterConnection(p, rc) ==
    IF rc.error = NoError
    THEN [p EXCEPT !.connections = rc.connections, !.line_num = @ + 1]
    ELSE [p EXCEPT !.connections = rc.connections,
                   !.error = rc.error, !.error_line = p.line_num]

\* one iteration of the loop, on the stripped line
ParseStep(p, line) ==
    CASE LineClass(line) = "assignment" ->
            AfterAssignment(p, ParseAssignment(line, p.line_num, p.machine_x,
                                               p.machines, p.variables))
      [] LineClass(line) = "connection" ->
            AfterConnection(p, ParseConnection(line, p.connections, p.variables))
      [] OTHER -> [p EXCEPT !.line_num = @ + 1]

\* the loop from the parser state p on
RECURSIVE ParseFrom(_, _)
ParseFrom(p, text) ==
    IF p.error # NoError \/ p.line_num = Len(text)
    THEN p
    ELSE ParseFrom(ParseStep(p, Strip(text[p.line_num + 1])), text)

\* CodeParser.parse
Parse(text) == ParseFrom(ParserStart, text)

vars == <<parserVars, graphVars>>

(***************************************************************************)
(* Machines (machines.py).  Times are counted in tenths of a second.       *)
(***************************************************************************)
MaxObjects == 2
MaxConns == 1
MaxShapes == 2

ProcessingTime == 5
ConveyorProcessingTime == 2
SpawnInterval == 20
DefaultDegrees == 90
DefaultLoopCount == 3
DefaultPackSize == 3
DictTargetSize == 3

NoItem == 0
DefaultCondition == "shape.color == 'red'"

\* the cells a machine may be constructed at
Cells == {<<1, 3>>, <<3, 3>>}

\* Machine.__init__
MachineInit(machine_type, x, y) ==
    [machine_type |-> machine_type, x |-> x, y |-> y,
     input_buffer |-> <<>>, output_buffer |-> <<>>,
     connections_out |-> <<>>, connections_in |-> <<>>,
     processing_time |-> ProcessingTime, current_process_time |-> 0,
     is_processing |-> FALSE, current_item |-> NoItem, enabled |-> TRUE]

\* kw.get(key, default) for the keyword arguments of a constructor
KwGet(kw, key, default) == IF key \in DOMAIN kw THEN kw[key] ELSE default

\* the attributes each subclass constructor adds or overrides
ClassFields(cls, kw) ==
    CASE cls = "source" ->
            [shape_type |-> KwGet(kw, "shape_type", "circle"),
             color |-> KwGet(kw, "color", "white"),
             spawn_interval |-> SpawnInterval, spawn_timer |-> 0,
             auto_spawn |-> TRUE]
      [] cls = "output" ->
            [collected |-> <<>>, target_shape |-> NoItem, required_count |-> 1,
             success_count |-> 0]
      [] cls = "conveyor" ->
            [direction |-> KwGet(kw, "direction", "right"),
             processing_time |-> ConveyorProcessingTime]
      [] cls = "painter" ->
            [target_color |-> KwGet(kw, "target_color", "red")]
      [] cls = "rotator" ->
            [degrees |-> KwGet(kw, "degrees", DefaultDegrees)]
      [] cls = "stacker" -> [second_input |-> <<>>]
      [] cls = "splitter" ->
            [condition_code |-> DefaultCondition,
             true_connections |-> <<>>, false_connections |-> <<>>]
      [] cls = "looper" -> [loop_count |-> DefaultLoopCount, current_loop |-> 0]
      [] cls = "function" ->
            [function_name |-> KwGet(kw, "name", "my_function"),
             inner_machines |-> <<>>]
      [] cls = "packer" ->
            [pack_size |-> KwGet(kw, "pack_size", DefaultPackSize),
             package_type |-> "list", current_package |-> NoItem]
      [] cls = "dict_packer" ->
            [current_dict |-> NoItem, item_count |-> 0,
             target_size |-> DictTargetSize]
      [] cls = "comprehension" ->
            [transform_code |-> "shape.paint('red')", filter_code |-> "True"]
      [] OTHER -> [n \in {} |-> 0]

MachineClasses == {"source", "output", "conveyor", "painter", "cutter", "rotator",
                   "stacker", "splitter", "looper", "function", "packer",
                   "unpacker", "dict_packer", "comprehension"}

\* create_machine: the object the factory function returns; a type that is
\* not in machine_classes gives a ConveyorMachine
CreateMachineObject(machine_type, x, y, kw) ==
    LET cls == IF machine_type \in MachineClasses THEN machine_type ELSE "conveyor"
    IN  Over(ClassFields(cls, kw), MachineInit(cls, x, y))

\* Connection.__init__
ConnectionInit(from_machine, to_machine, from_port, to_port) ==
    [from_machine |-> from_machine, to_machine |-> to_machine,
     from_port |-> from_port, to_port |-> to_port,
     items_in_transit |-> <<>>, speed |-> 1]

(***************************************************************************)
(* Factory (game_engine.py).  The operations are functions of a world      *)
(* w = [heap, conns, f, shapes, raised]: the objects, the Factory f they   *)
(* act on, and the exception an operation has raised (None when none).     *)
(***************************************************************************)
\* Factory.__init__
FactoryInit == [machines |-> <<>>, connections |-> <<>>,
                grid |-> [c \in {} |-> 0], running |-> FALSE, speed |-> 1]

Range(seq) == { seq[i] : i \in 1..Len(seq) }

Pos(m) == <<m.x, m.y>>

\* list.remove(e): drops the first occurrence
RemoveFirst(seq, e) ==
    LET i == CHOOSE k \in 1..Len(seq) : seq[k] = e /\ \A j \in 1..(k - 1) : seq[j] # e
    IN  SubSeq(seq, 1, i - 1) \o SubSeq(seq, i + 1, Len(seq))

\* del d[key]
DictDel(d, key) == [k \in (DOMAIN d) \ {key} |-> d[k]]

\* Factory.add_machine without the occupancy test
AddMachineUnchecked(w, m) ==
    [w |-> [w EXCEPT !.f.machines = Append(@, m),
                     !.f.grid = Over(Pos(w.heap[m]) :> m, @)],
     ret |-> TRUE]

\* Factory.add_machine
AddMachine(w, m) ==
    LET pos == Pos(w.heap[m])
    IN  IF pos \in DOMAIN w.f.grid
        THEN [w |-> w, ret |-> FALSE]
        ELSE [w |-> [w EXCEPT !.f.machines = Append(@, m),
                              !.f.grid = Over(pos :> m, @)],
              ret |-> TRUE]

\* Factory.remove_machine that filters the connections on the source end only
RemoveMachineKeepsInbound(w, m) ==
    LET pos == Pos(w.heap[m])
        g == IF pos \in DOMAIN w.f.grid THEN DictDel(w.f.grid, pos) ELSE w.f.grid
        ms == IF m \in Range(w.f.machines)
              THEN RemoveFirst(w.f.machines, m) ELSE w.f.machines
        cs == SelectSeq(w.f.connections, LAMBDA c : w.conns[c].from_machine # m)
    IN  [w EXCEPT !.f.grid = g, !.f.machines = ms, !.f.connections = cs,
                  !.heap[m].connections_in = <<>>,
                  !.heap[m].connections_out = <<>>]

\* Factory.remove_machine
RemoveMachine(w, m) ==
    LET pos == Pos(w.heap[m])
        g == IF pos \in DOMAIN w.f.grid THEN DictDel(w.f.grid, pos) ELSE w.f.grid
        ms == IF m \in Range(w.f.machines)
              THEN RemoveFirst(w.f.machines, m) ELSE w.f.machines
        cs == SelectSeq(w.f.connections,
                        LAMBDA c : /\ w.conns[c].from_machine # m
                                   /\ w.conns[c].to_machine # m)
    IN  [w EXCEPT !.f.grid = g, !.f.machines = ms, !.f.connections = cs,
                  !.heap[m].connections_in = <<>>,
                  !.heap[m].connections_out = <<>>]

\* Machine.connect_to and Factory.connect
Connect(w, a, b, from_port, to_port) ==
    LET c == Len(w.conns) + 1
        h1 == [w.heap EXCEPT ![a].connections_out = Append(@, c)]
        h2 == [h1 EXCEPT ![b].connections_in = Append(@, c)]
    IN  [w EXCEPT !.conns = Append(@, ConnectionInit(a, b, from_port, to_port)),
                  !.heap = h2,
                  !.f.connections = Append(@, c)]

\* Factory.clear
Clear(w) ==
    [w EXCEPT !.f.machines = <<>>, !.f.connections = <<>>,
              !.f.grid = [c \in {} |-> 0], !.f.running = FALSE]

(***************************************************************************)
(* Factory.to_dict and Factory.from_dict.                                  *)
(***************************************************************************)
\* Factory._get_machine_config
GetMachineConfig(machine) ==
    CASE machine.machine_type = "source" ->
            [shape_type |-> machine.shape_type, color |-> machine.color]
      [] machine.machine_type = "painter" -> [target_color |-> machine.target_color]
      [] machine.machine_type = "rotator" -> [degrees |-> machine.degrees]
      [] machine.machine_type = "splitter" ->
            [condition_code |-> machine.condition_code]
      [] machine.machine_type = "looper" -> [loop_count |-> machine.loop_count]
      [] machine.machine_type = "packer" -> [pack_size |-> machine.pack_size]
      [] OTHER -> [n \in {} |-> 0]

\* Factory._apply_machine_config without the rotator branch
ApplyMachineConfigNoDegrees(machine, config) ==
    CASE machine.machine_type = "source" ->
            [machine EXCEPT !.shape_type = KwGet(config, "shape_type", "circle"),
                            !.color = KwGet(config, "color", "white")]
      [] machine.machine_type = "painter" ->
            [machine EXCEPT !.target_color = KwGet(config, "target_color", "red")]
      [] machine.machine_type = "splitter" ->
            [machine EXCEPT !.condition_code = KwGet(config, "condition_code", "True")]
      [] machine.machine_type = "looper" ->
            [machine EXCEPT !.loop_count = KwGet(config, "loop_count", DefaultLoopCount)]
      [] machine.machine_type = "packer" ->
            [machine EXCEPT !.pack_size = KwGet(config, "pack_size", DefaultPackSize)]
      [] OTHER -> machine

\* Factory._apply_machine_config
ApplyMachineConfig(machine, config) ==
    CASE machine.machine_type = "source" ->
            [machine EXCEPT !.shape_type = KwGet(config, "shape_type", "circle"),
                            !.color = KwGet(config, "color", "white")]
      [] machine.machine_type = "painter" ->
            [machine EXCEPT !.target_color = KwGet(config, "target_color", "red")]
      [] machine.machine_type = "rotator" ->
            [machine EXCEPT !.degrees = KwGet(config, "degrees", DefaultDegrees)]
      [] machine.machine_type = "splitter" ->
            [machine EXCEPT !.condition_code = KwGet(config, "condition_code", "True")]
      [] machine.machine_type = "looper" ->
            [machine EXCEPT !.loop_count = KwGet(config, "loop_count", DefaultLoopCount)]
      [] machine.machine_type = "packer" ->
            [machine EXCEPT !.pack_size = KwGet(config, "pack_size", DefaultPackSize)]
      [] OTHER -> machine

\* list.index(e), counted from 0
IndexOf(seq, e) ==
    (CHOOSE k \in 1..Len(seq) : seq[k] = e /\ \A j \in 1..(k - 1) : seq[j] # e) - 1

\* to_dict raises ValueError when a connection's end is not in machines
ToDictRaises(w) ==
    \E k \in 1..Len(w.f.connections) :
        \/ w.conns[w.f.connections[k]].from_machine \notin Range(w.f.machines)
        \/ w.conns[w.f.connections[k]].to_machine \notin Range(w.f.machines)

\* Factory.to_dict
ToDict(w) ==
    [machines |->
        [i \in 1..Len(w.f.machines) |->
            LET m == w.heap[w.f.machines[i]]
            IN  [type |-> m.machine_type, x |-> m.x, y |-> m.y,
                 config |-> GetMachineConfig(m)]],
     connections |->
        [k \in 1..Len(w.f.connections) |->
            LET c == w.conns[w.f.connections[k]]
            IN  [from |-> IndexOf(w.f.machines, c.from_machine),
                 to |-> IndexOf(w.f.machines, c.to_machine),
                 from_port |-> c.from_port, to_port |-> c.to_port]]]

\* the first loop of from_dict, from entry i on
RECURSIVE FromDictMachines(_, _, _)
FromDictMachines(w, m_data, i) ==
    IF i > Len(m_data)
    THEN w
    ELSE LET machine == ApplyMachineConfig(
                            CreateMachineObject(m_data[i].type, m_data[i].x,
                                                m_data[i].y, [n \in {} |-> 0]),
                            m_data[i].config)
             w1 == [w EXCEPT !.heap = Append(@, machine)]
         IN  FromDictMachines(AddMachine(w1, Len(w1.heap)).w, m_data, i + 1)

\* the second loop of from_dict, from entry k on
RECURSIVE FromDictConnections(_, _, _)
FromDictConnections(w, c_data, k) ==
    IF k > Len(c_data)
    THEN w
    ELSE LET n == Len(w.f.machines)
             from_idx == c_data[k].from
             to_idx == c_data[k].to
         IN  IF 0 <= from_idx /\ from_idx < n /\ 0 <= to_idx /\ to_idx < n
             THEN FromDictConnections(
                      Connect(w, w.f.machines[from_idx + 1], w.f.machines[to_idx + 1],
                              c_data[k].from_port, c_data[k].to_port),
                      c_data, k + 1)
             ELSE FromDictConnections(w, c_data, k + 1)

\* Factory.from_dict: the world with the new Factory in it
FromDict(w, data) ==
    FromDictConnections(
        FromDictMachines([w EXCEPT !.f = FactoryInit], data.machines, 1),
        data.connections, 1)

(***************************************************************************)
(* Shapes (shapes.py) and the tick: Factory.update, Machine.update,        *)
(* Connection.update.                                                      *)
(***************************************************************************)
ShapeSize == 40
TransitDone == 10

ShapeTypes == {"circle", "square", "triangle", "diamond", "star", "hexagon"}
ShapeColors == {"red", "green", "blue", "yellow", "purple", "orange", "white", "gray"}

\* Shape.__init__
ShapeInit(shape_type, color) ==
    [shape_type |-> shape_type, color |-> color, size |-> ShapeSize,
     rotation |-> 0, layers |-> <<>>, metadata |-> [n \in {} |-> 0]]

\* create_shape: the world with the new Shape as its last object
CreateShape(w, shape_type, color) ==
    [w EXCEPT !.shapes =
        Append(@, ShapeInit(IF shape_type \in ShapeTypes THEN shape_type ELSE "circle",
                            IF color \in ShapeColors THEN color ELSE "white"))]

\* isinstance(o, Shape), for an object o of the item heap
IsShape(o) == "shape_type" \in DOMAIN o

\* Shape.clone that leaves the rotation of the new shape at 0
RECURSIVE CloneUnrotated(_)
CloneUnrotated(s) ==
    [ShapeInit(s.shape_type, s.color) EXCEPT
        !.size = s.size,
        !.layers = [k \in 1..Len(s.layers) |-> CloneUnrotated(s.layers[k])],
        !.metadata = s.metadata]

\* Shape.clone
RECURSIVE Clone(_)
Clone(s) ==
    [ShapeInit(s.shape_type, s.color) EXCEPT
        !.size = s.size,
        !.rotation = s.rotation,
        !.layers = [k \in 1..Len(s.layers) |-> Clone(s.layers[k])],
        !.metadata = s.metadata]

\* Shape.rotate with a remainder that takes the sign of the dividend
RotateTruncated(s, degrees) ==
    [s EXCEPT !.rotation = IF s.rotation + degrees >= 0
                           THEN (s.rotation + degrees) % 360
                           ELSE 0 - ((0 - (s.rotation + degrees)) % 360)]

\* Shape.rotate
Rotate(s, degrees) == [s EXCEPT !.rotation = (s.rotation + degrees) % 360]

\* Shape.paint
Paint(s, new_color) ==
    IF new_color \in ShapeColors THEN [s EXCEPT !.color = new_color] ELSE s

\* Shape.stack
Stack(s, other) == [s EXCEPT !.layers = Append(@, Clone(other))]

\* a cut whose right half is turned by a quarter
CutTurnsRight(s) ==
    <<[Clone(s) EXCEPT !.metadata = Over("half" :> "left", @), !.size = s.size \div 2],
      [Rotate(Clone(s), 90) EXCEPT !.metadata = Over("half" :> "right", @),
                                   !.size = s.size \div 2]>>

\* Shape.cut: the left and the right half
Cut(s) ==
    <<[Clone(s) EXCEPT !.metadata = Over("half" :> "left", @), !.size = s.size \div 2],
      [Clone(s) EXCEPT !.metadata = Over("half" :> "right", @), !.size = s.size \div 2]>>

\* ShapePackage.__init__
ShapePackageInit(package_type) ==
    [package_type |-> package_type, items |-> <<>>,
     is_mutable |-> (package_type = "list")]

TupleIsImmutable == "ValueError: tuple cannot be modified"

\* a comparison that leaves the color out
RECURSIVE MatchesButColor(_, _)
MatchesButColor(s, target) ==
    /\ s.shape_type = target.shape_type
    /\ s.rotation = target.rotation
    /\ Len(s.layers) = Len(target.layers)
    /\ \A k \in 1..Len(s.layers) : MatchesButColor(s.layers[k], target.layers[k])

\* Shape.matches, on the attributes of two shapes
RECURSIVE Matches(_, _)
Matches(s, target) ==
    /\ s.shape_type = target.shape_type
    /\ s.color = target.color
    /\ s.rotation = target.rotation
    /\ Len(s.layers) = Len(target.layers)
    /\ \A k \in 1..Len(s.layers) : Matches(s.layers[k], target.layers[k])

\* Connection.send
ConnectionSend(conn, item) ==
    [conn EXCEPT !.items_in_transit = Append(@, <<item, 0>>)]

\* a send that delivers to nobody and stores nothing
SendToNone(w, m, item, port) == w

\* a send that keeps in the output buffer what no connection takes
SendKeepsUnsent(w, m, item, port) ==
    LET outs == w.heap[m].connections_out
    IN  IF \E k \in 1..Len(outs) : w.conns[outs[k]].from_port = port
        THEN [w EXCEPT !.conns =
                [c \in DOMAIN w.conns |->
                    IF c \in Range(outs) /\ w.conns[c].from_port = port
                    THEN ConnectionSend(w.conns[c], item)
                    ELSE w.conns[c]]]
        ELSE [w EXCEPT !.heap[m].output_buffer = Append(@, item)]

\* Machine.send
Send(w, m, item, port) ==
    LET outs == w.heap[m].connections_out
    IN  IF outs # <<>>
        THEN [w EXCEPT !.conns =
                [c \in DOMAIN w.conns |->
                    IF c \in Range(outs) /\ w.conns[c].from_port = port
                    THEN ConnectionSend(w.conns[c], item)
                    ELSE w.conns[c]]]
        ELSE [w EXCEPT !.heap[m].output_buffer = Append(@, item)]

\* SplitterMachine.evaluate_condition: eval of the condition text with the
\* item bound to shape; an exception gives False
EvaluateCondition(w, m, item) ==
    CASE w.heap[m].condition_code = DefaultCondition ->
            IsShape(w.shapes[item]) /\ w.shapes[item].color = "red"

\* SplitterMachine.send with a default branch that sends on every connection
SplitterSendAnyPort(w, m, item, port) ==
    LET outs == w.heap[m].connections_out
        wanted == IF EvaluateCondition(w, m, item) THEN "output_true" ELSE "output_false"
        hits == { k \in 1..Len(outs) : w.conns[outs[k]].from_port = wanted }
    IN  IF hits # {}
        THEN LET c == outs[CHOOSE k \in hits : \A j \in hits : k <= j]
             IN  [w EXCEPT !.conns[c] = ConnectionSend(@, item)]
        ELSE [w EXCEPT !.conns =
                [c \in DOMAIN w.conns |->
                    IF c \in Range(outs) THEN ConnectionSend(w.conns[c], item)
                    ELSE w.conns[c]]]

\* SplitterMachine.send that tries the port of the other branch before the
\* default rule
SplitterSendOtherBranch(w, m, item, port) ==
    LET outs == w.heap[m].connections_out
        wanted == IF EvaluateCondition(w, m, item) THEN "output_true" ELSE "output_false"
        other == IF EvaluateCondition(w, m, item) THEN "output_false" ELSE "output_true"
        hits == { k \in 1..Len(outs) : w.conns[outs[k]].from_port = wanted }
        others == { k \in 1..Len(outs) : w.conns[outs[k]].from_port = other }
    IN  IF hits # {}
        THEN LET c == outs[CHOOSE k \in hits : \A j \in hits : k <= j]
             IN  [w EXCEPT !.conns[c] = ConnectionSend(@, item)]
        ELSE IF others # {}
        THEN LET c == outs[CHOOSE k \in others : \A j \in others : k <= j]
             IN  [w EXCEPT !.conns[c] = ConnectionSend(@, item)]
        ELSE Send(w, m, item, port)

\* SplitterMachine.send
SplitterSend(w, m, item, port) ==
    LET outs == w.heap[m].connections_out
        wanted == IF EvaluateCondition(w, m, item) THEN "output_true" ELSE "output_false"
        hits == { k \in 1..Len(outs) : w.conns[outs[k]].from_port = wanted }
    IN  IF hits # {}
        THEN LET c == outs[CHOOSE k \in hits : \A j \in hits : k <= j]
             IN  [w EXCEPT !.conns[c] = ConnectionSend(@, item)]
        ELSE Send(w, m, item, port)

\* self.send(item, port), by the class of the machine
MachineSend(w, m, item, port) ==
    IF w.heap[m].machine_type = "splitter"
    THEN SplitterSend(w, m, item, port)
    ELSE Send(w, m, item, port)

\* self.send(item) for every item of a result, in order
RECURSIVE SendAll(_, _, _)
SendAll(w, m, items) ==
    IF items = <<>>
    THEN w
    ELSE SendAll(MachineSend(w, m, Head(items), "output"), m, Tail(items))

\* receive that puts the item at the front of the buffer
ReceiveInFront(w, m, item, port) ==
    IF w.heap[m].machine_type = "stacker" /\ port = "input2"
    THEN [w EXCEPT !.heap[m].second_input = <<item>> \o @]
    ELSE [w EXCEPT !.heap[m].input_buffer = <<item>> \o @]

\* Machine.receive, and StackerMachine.receive
Receive(w, m, item, port) ==
    IF w.heap[m].machine_type = "stacker" /\ port = "input2"
    THEN [w EXCEPT !.heap[m].second_input = Append(@, item)]
    ELSE [w EXCEPT !.heap[m].input_buffer = Append(@, item)]

\* a test of the package length that lets one more shape in
PackerEmitLate(w, m) ==
    IF Len(w.shapes[w.heap[m].current_package].items) > w.heap[m].pack_size
    THEN [w |-> [w EXCEPT !.heap[m].current_package = NoItem],
          result |-> <<w.heap[m].current_package>>]
    ELSE [w |-> w, result |-> <<>>]

\* PackerMachine.process, from the test of the package length on
PackerEmit(w, m) ==
    IF Len(w.shapes[w.heap[m].current_package].items) >= w.heap[m].pack_size
    THEN [w |-> [w EXCEPT !.heap[m].current_package = NoItem],
          result |-> <<w.heap[m].current_package>>]
    ELSE [w |-> w, result |-> <<>>]

\* PackerMachine.process, from the test of the item on
PackerAppend(w, m, item) ==
    IF IsShape(w.shapes[item])
    THEN IF w.shapes[w.heap[m].current_package].is_mutable
         THEN PackerEmit([w EXCEPT !.shapes[w.heap[m].current_package].items =
                                        Append(@, item)], m)
         ELSE [w |-> [w EXCEPT !.raised = TupleIsImmutable], result |-> <<>>]
    ELSE PackerEmit(w, m)

\* PackerMachine.process
PackerProcess(w, m, item) ==
    IF w.heap[m].current_package = NoItem
    THEN PackerAppend([w EXCEPT !.shapes = Append(@, ShapePackageInit(w.heap[m].package_type)),
                                !.heap[m].current_package = Len(w.shapes) + 1],
                      m, item)
    ELSE PackerAppend(w, m, item)

\* StackerMachine.process
StackerProcess(w, m, item) ==
    IF IsShape(w.shapes[item]) /\ w.heap[m].second_input # <<>>
    THEN LET second == Head(w.heap[m].second_input)
             w1 == [w EXCEPT !.heap[m].second_input = Tail(@)]
         IN  IF IsShape(w.shapes[second])
             THEN [w |-> [w1 EXCEPT !.shapes[item] = Stack(@, w.shapes[second])],
                   result |-> <<item>>]
             ELSE [w |-> w1, result |-> <<item>>]
    ELSE [w |-> w, result |-> <<item>>]

\* isinstance(o, ShapePackage), for an object o of the item heap
IsPackage(o) == "package_type" \in DOMAIN o

\* the texts given to set_comprehension; NoSuchMethod calls a method that
\* Shape does not have, so that its evaluation raises AttributeError
NoSuchMethod == "shape.nothing()"
TransformCodes == {"shape.paint('red')", "shape.rotate(90)", NoSuchMethod}
FilterCodes == {"True", "shape.color == 'red'", NoSuchMethod}

\* ComprehensionMachine.set_comprehension
SetComprehension(w, m, transform, filter_cond) ==
    [w EXCEPT !.heap[m].transform_code = transform,
              !.heap[m].filter_code = filter_cond]

\* eval(self.filter_code, {"__builtins__": {}}, {'shape': shape}), when it
\* does not raise
EvalFilter(text, s) ==
    CASE text = "True" -> TRUE
      [] text = "shape.color == 'red'" -> s.color = "red"

\* the value of the transform expression for the shape that the name shape
\* is bound to; paint and rotate change that shape and return it
EvalTransform(text, s) ==
    CASE text = "shape.paint('red')" -> Paint(s, "red")
      [] text = "shape.rotate(90)" -> Rotate(s, 90)

\* the body of the loop of ComprehensionMachine.process for the shape named
\* by item, with result the package being filled.  exec is given the clone
\* as the global shape and local_vars, in which shape is the element of the
\* input package, as its locals; a name is looked up in the locals first, so
\* the transform is evaluated on the element itself and the clone is left
\* unused
ComprehensionStep(w, m, result, item) ==
    IF w.heap[m].filter_code = NoSuchMethod
    THEN [w EXCEPT !.shapes[result].items = Append(@, item)]
    ELSE IF EvalFilter(w.heap[m].filter_code, w.shapes[item])
         THEN IF w.heap[m].transform_code = NoSuchMethod
              THEN [w EXCEPT !.shapes[result].items = Append(@, item)]
              ELSE [w EXCEPT !.shapes[item] = EvalTransform(w.heap[m].transform_code, @),
                             !.shapes[result].items = Append(@, item)]
         ELSE w

\* the loop of ComprehensionMachine.process over items, from the i-th on
RECURSIVE ComprehensionLoop(_, _, _, _, _)
ComprehensionLoop(w, m, result, items, i) ==
    IF i > Len(items)
    THEN w
    ELSE ComprehensionLoop(ComprehensionStep(w, m, result, items[i]),
                           m, result, items, i + 1)

\* ComprehensionMachine.process
ComprehensionProcess(w, m, item) ==
    IF IsPackage(w.shapes[item])
    THEN [w |-> ComprehensionLoop(
                    [w EXCEPT !.shapes = Append(@, ShapePackageInit("list"))],
                    m, Len(w.shapes) + 1, w.shapes[item].items, 1),
          result |-> <<Len(w.shapes) + 1>>]
    ELSE [w |-> w, result |-> <<item>>]

\* process(item), by the class of the machine: the world after the call
\* (with raised set when the call raises) and the items of the result (none
\* when process returns None).  Looper, function, unpacker and dict_packer
\* machines are not built by the specifications below.
Process(w, m, item) ==
    CASE w.heap[m].machine_type \in {"source", "conveyor", "splitter"} ->
            [w |-> w, result |-> <<item>>]
      [] w.heap[m].machine_type = "output" ->
            LET mach == w.heap[m]
                hit == /\ mach.target_shape # NoItem
                       /\ IsShape(w.shapes[item])
                       /\ Matches(w.shapes[item], w.shapes[mach.target_shape])
            IN  [w |-> [w EXCEPT !.heap[m].collected = Append(@, item),
                                 !.heap[m].success_count =
                                        IF hit THEN @ + 1 ELSE @],
                 result |-> <<>>]
      [] w.heap[m].machine_type = "painter" ->
            [w |-> IF IsShape(w.shapes[item])
                   THEN [w EXCEPT !.shapes[item] = Paint(@, w.heap[m].target_color)]
                   ELSE w,
             result |-> <<item>>]
      [] w.heap[m].machine_type = "rotator" ->
            [w |-> IF IsShape(w.shapes[item])
                   THEN [w EXCEPT !.shapes[item] = Rotate(@, w.heap[m].degrees)]
                   ELSE w,
             result |-> <<item>>]
      [] w.heap[m].machine_type = "cutter" ->
            IF IsShape(w.shapes[item])
            THEN [w |-> [w EXCEPT !.shapes = @ \o Cut(w.shapes[item])],
                  result |-> <<Len(w.shapes) + 1, Len(w.shapes) + 2>>]
            ELSE [w |-> w, result |-> <<item>>]
      [] w.heap[m].machine_type = "stacker" -> StackerProcess(w, m, item)
      [] w.heap[m].machine_type = "packer" -> PackerProcess(w, m, item)
      [] w.heap[m].machine_type = "comprehension" -> ComprehensionProcess(w, m, item)

\* self.to_machine.receive(item, self.to_port) for the items of a list, in order
RECURSIVE ReceiveAll(_, _, _, _)
ReceiveAll(w, m, items, port) ==
    IF items = <<>>
    THEN w
    ELSE ReceiveAll(Receive(w, m, Head(items), port), m, Tail(items), port)

\* Connection.update that delivers an entry only when its progress has gone
\* past 1
ConnectionUpdateLate(w, c, dt) ==
    LET conn == w.conns[c]
        its == conn.items_in_transit
        Done(e) == e[2] + dt * conn.speed > TransitDone
        completed == SelectSeq(its, Done)
        kept == SelectSeq(its, LAMBDA e : ~Done(e))
    IN  ReceiveAll(
            [w EXCEPT !.conns[c].items_in_transit =
                [i \in 1..Len(kept) |-> <<kept[i][1], kept[i][2] + dt * conn.speed>>]],
            conn.to_machine, [i \in 1..Len(completed) |-> completed[i][1]],
            conn.to_port)

\* Connection.update
ConnectionUpdate(w, c, dt) ==
    LET conn == w.conns[c]
        its == conn.items_in_transit
        Done(e) == e[2] + dt * conn.speed >= TransitDone
        completed == SelectSeq(its, Done)
        kept == SelectSeq(its, LAMBDA e : ~Done(e))
    IN  ReceiveAll(
            [w EXCEPT !.conns[c].items_in_transit =
                [i \in 1..Len(kept) |-> <<kept[i][1], kept[i][2] + dt * conn.speed>>]],
            conn.to_machine, [i \in 1..Len(completed) |-> completed[i][1]],
            conn.to_port)

\* the last loop of Machine.update, from the k-th connection of outs on
RECURSIVE UpdateConnections(_, _, _, _)
UpdateConnections(w, outs, k, dt) ==
    IF k > Len(outs)
    THEN w
    ELSE UpdateConnections(ConnectionUpdate(w, outs[k], dt), outs, k + 1, dt)

\* Machine.update, after process has returned r
Processed(r, m) ==
    IF r.w.raised # None
    THEN r.w
    ELSE [SendAll(r.w, m, r.result) EXCEPT !.heap[m].is_processing = FALSE,
                                          !.heap[m].current_item = NoItem,
                                          !.heap[m].current_process_time = 0]

\* Machine.update: the item being processed
Advanced(w, m, dt) ==
    IF ~w.heap[m].is_processing
    THEN w
    ELSE IF w.heap[m].current_process_time + dt >= w.heap[m].processing_time
         THEN Processed(Process([w EXCEPT !.heap[m].current_process_time = @ + dt],
                                m, w.heap[m].current_item), m)
         ELSE [w EXCEPT !.heap[m].current_process_time = @ + dt]

\* Machine.update that takes the next item of the buffer while it still
\* holds one
PickedWhileBusy(w, m, dt) ==
    IF w.raised # None
    THEN w
    ELSE IF w.heap[m].input_buffer # <<>>
         THEN UpdateConnections(
                [w EXCEPT !.heap[m].current_item = Head(w.heap[m].input_buffer),
                          !.heap[m].input_buffer = Tail(@),
                          !.heap[m].is_processing = TRUE,
                          !.heap[m].current_process_time = 0],
                w.heap[m].connections_out, 1, dt)
         ELSE UpdateConnections(w, w.heap[m].connections_out, 1, dt)

\* Machine.update: the next item of the input buffer, and the connections
Picked(w, m, dt) ==
    IF w.raised # None
    THEN w
    ELSE IF ~w.heap[m].is_processing /\ w.heap[m].input_buffer # <<>>
         THEN UpdateConnections(
                [w EXCEPT !.heap[m].current_item = Head(w.heap[m].input_buffer),
                          !.heap[m].input_buffer = Tail(@),
                          !.heap[m].is_processing = TRUE,
                          !.heap[m].current_process_time = 0],
                w.heap[m].connections_out, 1, dt)
         ELSE UpdateConnections(w, w.heap[m].connections_out, 1, dt)

\* Machine.update
MachineUpdate(w, m, dt) ==
    IF ~w.heap[m].enabled
    THEN w
    ELSE Picked(Advanced(w, m, dt), m, dt)

\* SourceMachine.update, after Machine.update
Spawned(w, m, dt) ==
    IF w.raised = None /\ w.heap[m].auto_spawn /\ w.heap[m].enabled
    THEN IF w.heap[m].spawn_timer + dt >= w.heap[m].spawn_interval
         THEN [Send(CreateShape(w, w.heap[m].shape_type, w.heap[m].color),
                    m, Len(w.shapes) + 1, "output")
                    EXCEPT !.heap[m].spawn_timer = 0]
         ELSE [w EXCEPT !.heap[m].spawn_timer = @ + dt]
    ELSE w

\* SourceMachine.update with the spawned shape never sent
SpawnedNotSent(w, m, dt) ==
    IF w.raised = None /\ w.heap[m].auto_spawn /\ w.heap[m].enabled
    THEN IF w.heap[m].spawn_timer + dt >= w.heap[m].spawn_interval
         THEN [CreateShape(w, w.heap[m].shape_type, w.heap[m].color)
                    EXCEPT !.heap[m].spawn_timer = 0]
         ELSE [w EXCEPT !.heap[m].spawn_timer = @ + dt]
    ELSE w

SourceUpdateNoSend(w, m, dt) == SpawnedNotSent(MachineUpdate(w, m, dt), m, dt)

\* SourceMachine.update
SourceUpdate(w, m, dt) == Spawned(MachineUpdate(w, m, dt), m, dt)

\* machine.update(dt), by the class of the machine
UpdateMachine(w, m, dt) ==
    IF w.heap[m].machine_type = "source"
    THEN SourceUpdate(w, m, dt)
    ELSE MachineUpdate(w, m, dt)

\* a loop over ms that starts from the machine added last
RECURSIVE UpdateMachinesLastFirst(_, _, _, _)
UpdateMachinesLastFirst(w, ms, i, dt) ==
    IF i > Len(ms) \/ w.raised # None
    THEN w
    ELSE UpdateMachinesLastFirst(UpdateMachine(w, ms[Len(ms) + 1 - i], dt),
                                 ms, i + 1, dt)

\* the loop of Factory.update over ms, from the i-th machine on
RECURSIVE UpdateMachines(_, _, _, _)
UpdateMachines(w, ms, i, dt) ==
    IF i > Len(ms) \/ w.raised # None
    THEN w
    ELSE UpdateMachines(UpdateMachine(w, ms[i], dt), ms, i + 1, dt)

\* Factory.update without the test of running
FactoryUpdateAlways(w, dt) == UpdateMachines(w, w.f.machines, 1, dt * w.f.speed)

\* Factory.update
FactoryUpdate(w, dt) ==
    IF ~w.f.running
    THEN w
    ELSE UpdateMachines(w, w.f.machines, 1, dt * w.f.speed)

\* Factory.start and Factory.stop
Start(w) == [w EXCEPT !.f.running = TRUE]
Stop(w) == [w EXCEPT !.f.running = FALSE]

\* the loop of Factory.reset over ms, from the i-th machine on
RECURSIVE ResetMachines(_, _, _)
ResetMachines(w, ms, i) ==
    IF i > Len(ms)
    THEN w
    ELSE LET m == ms[i]
             w1 == [w EXCEPT !.heap[m].input_buffer = <<>>,
                             !.heap[m].output_buffer = <<>>,
                             !.heap[m].is_processing = FALSE,
                             !.heap[m].current_item = NoItem]
             w2 == CASE w.heap[m].machine_type = "source" ->
                            [w1 EXCEPT !.heap[m].spawn_timer = 0]
                      [] w.heap[m].machine_type = "output" ->
                            [w1 EXCEPT !.heap[m].collected = <<>>,
                                       !.heap[m].success_count = 0]
                      [] OTHER -> w1
         IN  ResetMachines(w2, ms, i + 1)

\* Factory.reset with the items on the connections left where they are
ResetKeepsTransit(w) == ResetMachines(Stop(w), w.f.machines, 1)

\* Factory.reset
Reset(w) ==
    LET w1 == ResetMachines(Stop(w), w.f.machines, 1)
    IN  [w1 EXCEPT !.conns = [c \in DOMAIN w1.conns |->
                                IF c \in Range(w1.f.connections)
                                THEN [w1.conns[c] EXCEPT !.items_in_transit = <<>>]
                                ELSE w1.conns[c]]]

\* OutputMachine.set_target
SetTarget(w, m, shape, count) ==
    [w EXCEPT !.heap[m].target_shape = shape,
              !.heap[m].required_count = count,
              !.heap[m].success_count = 0]

\* OutputMachine.is_goal_reached
IsGoalReached(mach) == mach.success_count >= mach.required_count

(***************************************************************************)
(* The calls made on the factory.                                          *)
(***************************************************************************)
World == [heap |-> heap, conns |-> conns, f |-> factory, shapes |-> shapes,
          raised |-> None, is_completed |-> is_completed]

InstallWorld(w) ==
    /\ heap' = w.heap /\ conns' = w.conns /\ factory' = w.f /\ shapes' = w.shapes
    /\ is_completed' = w.is_completed

Install(w) == InstallWorld(w) /\ engine' = engine

Objects == 1..Len(heap)

\* the calls create_machine(type, x, y, **kwargs) with the arguments of k,
\* one for each of the cells
At(k, cells) ==
    { [type |-> k.type, kw |-> k.kw, x |-> cell[1], y |-> cell[2]] : cell \in cells }

\* the constructor calls made when a factory is built to be serialized: two
\* kinds whose configuration is not the default, each at a cell of its own
\* (two machines of one kind share their cell)
Constructors ==
    At([type |-> "source", kw |-> [shape_type |-> "square", color |-> "red"]],
       {<<1, 3>>})
    \cup At([type |-> "rotator", kw |-> [degrees |-> 180]], {<<3, 3>>})

\* and the ports its connections are made on
Ports == {<<"output_true", "input2">>}

\* the calls that differ in nothing the grid and the lists depend on
PlainConstructors == At([type |-> "conveyor", kw |-> [n \in {} |-> 0]], Cells)

DefaultPorts == {<<"output", "input">>}

NoOp == [name |-> "init", m |-> 0, ret |-> None]

\* GameEngine.__init__
EngineInit == [mode |-> "menu", current_user |-> None, current_level |-> FALSE,
               saves |-> 0]

InitGraph ==
    /\ heap = <<>>
    /\ conns = <<>>
    /\ factory = FactoryInit
    /\ shapes = <<>>
    /\ op = NoOp
    /\ is_completed = FALSE
    /\ engine = EngineInit

\* machine = create_machine(type, x, y, **kwargs), for a call of ctors
DoCreateMachine(ctors) ==
    /\ Len(heap) < MaxObjects
    /\ \E k \in ctors :
            heap' = Append(heap, CreateMachineObject(k.type, k.x, k.y, k.kw))
    /\ op' = [name |-> "create_machine", m |-> Len(heap) + 1, ret |-> None]
    /\ UNCHANGED <<conns, factory, shapes, is_completed, engine>>

\* factory.add_machine(m)
DoAddMachine ==
    \E m \in Objects :
        LET r == AddMachine(World, m)
        IN  /\ r.ret => Len(factory.machines) < MaxObjects
            /\ Install(r.w)
            /\ op' = [name |-> "add_machine", m |-> m, ret |-> r.ret]

\* factory.remove_machine(m)
DoRemoveMachine ==
    \E m \in Objects :
        /\ Install(RemoveMachine(World, m))
        /\ op' = [name |-> "remove_machine", m |-> m, ret |-> None]

\* factory.connect(a, b, from_port, to_port), for the port pairs in ports
DoConnect(ports) ==
    /\ Len(conns) < MaxConns
    /\ \E a \in Objects, b \in Objects, p \in ports :
            /\ Install(Connect(World, a, b, p[1], p[2]))
            /\ op' = [name |-> "connect", m |-> a, ret |-> Len(conns) + 1]

\* factory.clear()
DoClear ==
    /\ Install(Clear(World))
    /\ op' = [name |-> "clear", m |-> 0, ret |-> None]

\* d = factory.to_dict(); d2 = Factory.from_dict(d).to_dict(); ret holds
\* both dictionaries, or says that to_dict raised ValueError
DoRoundTrip ==
    /\ op' = [name |-> "round_trip", m |-> 0,
              ret |-> IF ToDictRaises(World)
                      THEN [raised |-> TRUE]
                      ELSE LET d == ToDict(World)
                           IN  [raised |-> FALSE, d |-> d,
                                d2 |-> ToDict(FromDict(World, d))]]
    /\ UNCHANGED <<heap, conns, factory, shapes, is_completed, engine>>

\* the kinds of machine the simulation builds
SimConstructors ==
    At([type |-> "source", kw |-> [n \in {} |-> 0]], Cells)
    \cup At([type |-> "output", kw |-> [n \in {} |-> 0]], Cells)

\* the time steps update is called with, in tenths of a second
Dts == {10}

\* factory.start()
DoStart ==
    /\ Install(Start(World))
    /\ op' = [name |-> "start", m |-> 0, ret |-> None]

\* factory.stop()
DoStop ==
    /\ Install(Stop(World))
    /\ op' = [name |-> "stop", m |-> 0, ret |-> None]

\* factory.update(dt) for a step of dts, while no more than cap shapes exist
DoUpdateOf(dts, cap) ==
    \E dt \in dts :
        \E w \in {FactoryUpdate(World, dt)} :
            /\ Len(w.shapes) <= cap
            /\ Install(w)
            /\ op' = [name |-> "update", m |-> 0, ret |-> w.raised]

\* factory.update(dt)
DoUpdate == DoUpdateOf(Dts, MaxShapes)

\* a world with nothing constructed
EmptyWorld == [heap |-> <<>>, conns |-> <<>>, f |-> FactoryInit, shapes |-> <<>>,
               raised |-> None, is_completed |-> FALSE]

\* machine = create_machine(type, x, y); factory.add_machine(machine)
Build(w, type, x, y, kw) ==
    AddMachine([w EXCEPT !.heap = Append(@, CreateMachineObject(type, x, y, kw))],
               Len(w.heap) + 1).w

\* the state in which the objects of w are the objects there are
Holds(w) ==
    /\ heap = w.heap /\ conns = w.conns /\ factory = w.f /\ shapes = w.shapes
    /\ is_completed = w.is_completed
    /\ engine = EngineInit

NoKw == [n \in {} |-> 0]

\* a source of white circles wired to an output that wants three of them,
\* started
GoalSource == 1
GoalOutput == 2
GoalBuilt ==
    \E w1 \in {Build(EmptyWorld, "source", 1, 3,
                      [shape_type |-> "circle", color |-> "white"])} :
    \E w2 \in {Build(w1, "output", 10, 3, NoKw)} :
    \E w3 \in {CreateShape(w2, "circle", "white")} :
    \E w4 \in {SetTarget(w3, GoalOutput, Len(w3.shapes), 3)} :
    \E w5 \in {Connect(w4, GoalSource, GoalOutput, "output", "input")} :
        Holds(Start(w5))

\* the frame times of the run, in tenths of a second
GoalDts == {1, 5, 10, 25}
MaxGoalShapes == 7

\* a splitter whose only connection leaves its port output_true, wired to an
\* output, started
TheSplitter == 1
SplitSink == 2
SplitBuilt ==
    \E w1 \in {Build(EmptyWorld, "splitter", 1, 3, NoKw)} :
    \E w2 \in {Build(w1, "output", 3, 3, NoKw)} :
    \E w3 \in {Connect(w2, TheSplitter, SplitSink, "output_true", "input")} :
        Holds(Start(w3))

\* the factories that are run, stopped and reset: a source that feeds a
\* packer of two whose packages go to an output, and a source wired to an
\* output that wants one white circle
PackerBuilt ==
    \E w1 \in {Build(EmptyWorld, "source", 1, 3, NoKw)} :
    \E w2 \in {Build(w1, "packer", 3, 3, [pack_size |-> 2])} :
    \E w3 \in {Build(w2, "output", 5, 3, NoKw)} :
    \E w4 \in {Connect(w3, 1, 2, "output", "input")} :
        Holds(Connect(w4, 2, 3, "output", "input"))

\* the same line, with packer.package_type = t assigned after it is built
PackageTypes == {"list", "tuple"}

PackerOfTypeBuilt ==
    \E t \in PackageTypes :
    \E w1 \in {Build(EmptyWorld, "source", 1, 3, NoKw)} :
    \E w2 \in {Build(w1, "packer", 3, 3, [pack_size |-> 2])} :
    \E w3 \in {Build(w2, "output", 5, 3, NoKw)} :
    \E w4 \in {Connect(w3, 1, 2, "output", "input")} :
    \E w5 \in {Connect(w4, 2, 3, "output", "input")} :
        Holds([w5 EXCEPT !.heap[2].package_type = t])

TargetBuilt ==
    \E w1 \in {Build(EmptyWorld, "source", 1, 3, NoKw)} :
    \E w2 \in {Build(w1, "output", 3, 3, NoKw)} :
    \E w3 \in {CreateShape(w2, "circle", "white")} :
    \E w4 \in {SetTarget(w3, 2, Len(w3.shapes), 1)} :
        Holds(Connect(w4, 1, 2, "output", "input"))

RunDts == {5, 10}
MaxRunShapes == 4

\* factory.reset()
DoReset ==
    /\ Install(Reset(World))
    /\ op' = [name |-> "reset", m |-> 0, ret |-> None]

(***************************************************************************)
(* Calls on shapes (shapes.py).                                            *)
(***************************************************************************)
MaxLayers == 1

\* the arguments rotate and paint are called with
Degrees == {0 - 450, 0 - 90, 90, 180, 720}
PaintColors == {"red", "blue"}

\* shapes without layers: made by create_shape, rotated, and their halves
WholeShapes ==
    { Rotate(CreateShape(EmptyWorld, t, c).shapes[1], d) :
        t \in {"circle"}, c \in {"white", "red"}, d \in {0, 90, 180, 270} }

FlatShapes == WholeShapes \cup { Cut(s)[half] : s \in WholeShapes, half \in 1..2 }

\* the shapes with no more than n layers stacked on them
RECURSIVE Layered(_)
Layered(n) ==
    IF n = 0
    THEN FlatShapes
    ELSE Layered(n - 1) \cup { Stack(s, l) : s \in Layered(n - 1), l \in FlatShapes }

\* shapes[i].rotate(degrees)
DoRotate ==
    \E i \in 1..Len(shapes), d \in Degrees :
        /\ shapes' = [shapes EXCEPT ![i] = Rotate(@, d)]
        /\ op' = [name |-> "rotate", m |-> i, ret |-> d]
        /\ UNCHANGED <<heap, conns, factory, is_completed, engine>>

\* shapes[i].rotate(90).rotate(90).rotate(90).rotate(90)
DoFullTurn ==
    \E i \in 1..Len(shapes) :
        /\ shapes' = [shapes EXCEPT ![i] = Rotate(Rotate(Rotate(Rotate(@, 90), 90), 90), 90)]
        /\ op' = [name |-> "full_turn", m |-> i, ret |-> None]
        /\ UNCHANGED <<heap, conns, factory, is_completed, engine>>

\* shapes[i].paint(color)
DoPaint ==
    \E i \in 1..Len(shapes), c \in PaintColors :
        /\ shapes' = [shapes EXCEPT ![i] = Paint(@, c)]
        /\ op' = [name |-> "paint", m |-> i, ret |-> c]
        /\ UNCHANGED <<heap, conns, factory, is_completed, engine>>

\* shapes[i].matches(shapes[i].clone()), and
\* shapes[i].matches(shapes[i].clone().paint(c)) for each color c
DoMatchClone ==
    \E i \in 1..Len(shapes) :
        /\ op' = [name |-> "matches", m |-> i,
                  ret |-> [clone |-> Matches(shapes[i], Clone(shapes[i])),
                           painted |-> [c \in ShapeColors |->
                                Matches(shapes[i], Paint(Clone(shapes[i]), c))]]]
        /\ UNCHANGED <<heap, conns, factory, shapes, is_completed, engine>>

(***************************************************************************)
(* The code-change handler of the editor (main.py, sandbox mode).          *)
(***************************************************************************)
\* code.strip() is empty
BlankCode(text) == \A i \in 1..Len(text) : Strip(text[i]) = <<>>

\* create_machine for an entry of the parse result, with the attributes the
\* handler sets on it
Configured(cfg) ==
    CASE cfg.type = "source" ->
            [CreateMachineObject(cfg.type, cfg.x, cfg.y, NoKw) EXCEPT
                !.shape_type = KwGet(cfg, "shape_type", "circle"),
                !.color = KwGet(cfg, "color", "white")]
      [] cfg.type = "painter" ->
            [CreateMachineObject(cfg.type, cfg.x, cfg.y, NoKw) EXCEPT
                !.target_color = KwGet(cfg, "target_color", "red")]
      [] cfg.type = "rotator" ->
            Over("rotation_amount" :> KwGet(cfg, "rotation", 90),
                 CreateMachineObject(cfg.type, cfg.x, cfg.y, NoKw))
      [] OTHER -> CreateMachineObject(cfg.type, cfg.x, cfg.y, NoKw)

\* added = factory.add_machine(machine) for the newest machine of w, and
\* machine_objects.append(machine) when it was added
Placed(w, objs) ==
    IF AddMachine(w, Len(w.heap)).ret
    THEN [w |-> AddMachine(w, Len(w.heap)).w, objs |-> Append(objs, Len(w.heap))]
    ELSE [w |-> w, objs |-> objs]

\* the loop over the machines of the parse result, from the i-th on
RECURSIVE RebuildMachines(_, _, _)
RebuildMachines(b, cfgs, i) ==
    IF i > Len(cfgs)
    THEN b
    ELSE RebuildMachines(
            Placed([b.w EXCEPT !.heap = Append(@, Configured(cfgs[i]))], b.objs),
            cfgs, i + 1)

\* the loop over the connections of the parse result, from the i-th on
RECURSIVE RebuildConnections(_, _, _, _)
RebuildConnections(w, objs, pairs, i) ==
    IF i > Len(pairs)
    THEN w
    ELSE RebuildConnections(
            IF pairs[i][1] < Len(objs) /\ pairs[i][2] < Len(objs)
            THEN Connect(w, objs[pairs[i][1] + 1], objs[pairs[i][2] + 1],
                         "output", "input")
            ELSE w,
            objs, pairs, i + 1)

Rebuilt(b, pairs) == RebuildConnections(b.w, b.objs, pairs, 1)

\* _on_code_change that clears the factory before it looks at the error
CodeChangeClearsFirst(w, r, text) ==
    IF r.error # NoError
    THEN Clear(w)
    ELSE IF r.machines = <<>> /\ r.connections = <<>>
         THEN IF BlankCode(text) THEN Clear(w) ELSE w
         ELSE Rebuilt(RebuildMachines([w |-> Clear(w), objs |-> <<>>], r.machines, 1),
                      r.connections)

\* _on_code_change, r being what parse returned for the text
CodeChange(w, r, text) ==
    IF r.error # NoError
    THEN w
    ELSE IF r.machines = <<>> /\ r.connections = <<>>
         THEN IF BlankCode(text) THEN Clear(w) ELSE w
         ELSE Rebuilt(RebuildMachines([w |-> Clear(w), objs |-> <<>>], r.machines, 1),
                      r.connections)

\* the texts the editor hands to the handler
EditScripts ==
    { <<AssignLine("a", "Source", <<Q("circle"), COMMA, SP, Q("white")>>),
        AssignLine("b", "Output", <<>>),
        ConnectLine("a", "b")>>,
      <<AssignLine("b", "painter", <<W("blue")>>),
        AssignLine("a", "Rotator", <<W("180")>>),
        ConnectLine("b", "a")>>,
      <<AssignLine("a", "Source", <<Q("circle"), COMMA, SP, Q("white")>>),
        AssignLine("b", "Output", <<>>),
        ConnectLine("a", "c")>>,
      <<AssignLine("b", "Output", <<>>), <<W("a"), EQ, W("Source")>>>>,
      <<AssignLine("c", "Widget", <<>>)>>,
      <<AssignLine("b", "ROTATOR", <<Q("fast")>>)>>,
      <<<<SP>>>>,
      <<<<W("foo")>>>> }

MaxEditObjects == 4

\* the editor calls _on_code_change(text): ret is what the editor records
DoCodeChange(scripts) ==
    \E text \in scripts :
    \E r \in {Parse(text)} :
    \E w \in {CodeChange(World, r, text)} :
        /\ Len(w.heap) <= MaxEditObjects
        /\ Install(w)
        /\ code' = text /\ pc' = "done"
        /\ line_num' = r.line_num
        /\ p_machines' = r.machines /\ p_connections' = r.connections
        /\ variables' = r.variables
        /\ error' = r.error /\ error_line' = r.error_line
        /\ machine_x' = r.machine_x
        /\ op' = [name |-> "code_change", m |-> 0,
                  ret |-> [error_line |-> r.error_line,
                           error_msg |-> IF r.error = NoError THEN <<>> ELSE r.error]]

\* the colors of the shapes fed to it, in turn
FedColors == <<"red", "blue">>
SplitDts == {2, 5, 10}
MaxSplitShapes == 6

\* m.receive(create_shape("circle", c)) for the next color c of colors
DoFeed(m, colors, cap) ==
    /\ Len(shapes) < cap
    /\ \E w \in {CreateShape(World, "circle", colors[(Len(shapes) % Len(colors)) + 1])} :
            Install(Receive(w, m, Len(w.shapes), "input"))
    /\ op' = [name |-> "receive", m |-> m, ret |-> None]

(***************************************************************************)
(* The Level that owns the factory (game_engine.py).  start_time and       *)
(* elapsed_time read the wall clock and decide nothing here.               *)
(***************************************************************************)
\* target_data of the levels that are set up
LevelTargets ==
    { [n \in {} |-> 0],
      [shape |-> [type |-> "circle", color |-> "white"], count |-> 1],
      [shape |-> [type |-> "circle", color |-> "white"], count |-> 2] }

LevelDts == {10}
MaxLevelObjects == 4
MaxLevelConns == 1
MaxLevelShapes == 3

\* Level._create_target_shape, for target_data that has a shape
CreateTargetShape(w, target_data) ==
    CreateShape(w, KwGet(target_data.shape, "type", "circle"),
                KwGet(target_data.shape, "color", "white"))

\* output = OutputMachine(10, 3); output.set_target(target_shape, count);
\* factory.add_machine(output)
TargetedOutput(w, target_data) ==
    AddMachine(SetTarget(CreateTargetShape(
                            [w EXCEPT !.heap = Append(@,
                                CreateMachineObject("output", 10, 3, NoKw))],
                            target_data),
                         Len(w.heap) + 1, Len(w.shapes) + 1,
                         KwGet(target_data, "count", 1)),
               Len(w.heap) + 1).w

\* Level._create_initial_machines
CreateInitialMachines(w, target_data) ==
    IF "shape" \in DOMAIN target_data
    THEN TargetedOutput(Build(w, "source", 1, 3,
                              [shape_type |-> "circle", color |-> "white"]),
                        target_data)
    ELSE Build(w, "output", 10, 3, NoKw)

\* Level.setup
LevelSetup(w, target_data) ==
    CreateInitialMachines([Clear(w) EXCEPT !.is_completed = FALSE], target_data)

\* Level.reset
LevelReset(w) == [Reset(w) EXCEPT !.is_completed = FALSE]

\* Level.check_completion
CheckCompletion(w) ==
    \E i \in 1..Len(w.f.machines) :
        /\ w.heap[w.f.machines[i]].machine_type = "output"
        /\ IsGoalReached(w.heap[w.f.machines[i]])

\* if not self.is_completed: self.is_completed = self.check_completion();
\* not reached when factory.update raised
Checked(w) ==
    IF w.raised # None \/ w.is_completed
    THEN w
    ELSE [w EXCEPT !.is_completed = CheckCompletion(w)]

\* Level.update that evaluates completion before it advances the factory
LevelUpdateChecksFirst(w, dt) == FactoryUpdate(Checked(w), dt)

\* Level.update
LevelUpdate(w, dt) == Checked(FactoryUpdate(w, dt))

\* game_engine.load_level: level.setup(), for the target_data of a level
DoLevelSetup(targets) ==
    /\ Len(heap) + 2 <= MaxLevelObjects
    /\ \E target_data \in targets :
            Install(LevelSetup(World, target_data))
    /\ op' = [name |-> "level_setup", m |-> 0, ret |-> None]

\* factory.connect(a, b) for two machines of the level's factory
DoLevelConnect ==
    /\ Len(conns) < MaxLevelConns
    /\ \E a \in Range(factory.machines), b \in Range(factory.machines) :
            /\ a # b
            /\ Install(Connect(World, a, b, "output", "input"))
            /\ op' = [name |-> "connect", m |-> a, ret |-> Len(conns) + 1]

\* factory.remove_machine(m) for a machine of the level's factory
DoLevelRemove ==
    \E m \in Range(factory.machines) :
        /\ Install(RemoveMachine(World, m))
        /\ op' = [name |-> "remove_machine", m |-> m, ret |-> None]

\* level.reset()
DoLevelReset ==
    /\ Install(LevelReset(World))
    /\ op' = [name |-> "level_reset", m |-> 0, ret |-> None]

\* level.update(dt) for a step of dts, while no more than cap shapes exist
DoLevelUpdate(dts, cap) ==
    \E dt \in dts :
        \E w \in {LevelUpdate(World, dt)} :
            /\ Len(w.shapes) <= cap
            /\ Install(w)
            /\ op' = [name |-> "level_update", m |-> 0, ret |-> w.raised]

(***************************************************************************)
(* One machine fed by hand: machine TheMachine, of one of the kinds below, *)
(* is the first machine of the factory and has no incoming connection, so  *)
(* its input buffer changes by receive and by its own update only.  Its    *)
(* port output is wired to an output, TheSink.                             *)
(***************************************************************************)
TheMachine == 1
TheSink == 2
MachKinds == {"conveyor", "rotator", "cutter", "packer"}
MachDts == {2, 4}
MaxMachShapes == 5

MachBuilt ==
    \E kind \in MachKinds :
    \E w1 \in {Build(EmptyWorld, kind, 1, 3,
                     IF kind = "packer" THEN [pack_size |-> 2] ELSE NoKw)} :
    \E w2 \in {Build(w1, "output", 3, 3, NoKw)} :
    \E w3 \in {Connect(w2, TheMachine, TheSink, "output", "input")} :
        Holds(Start(w3))

\* m.receive(create_shape("circle", c), port) for the next color c of colors
DoFeedAt(m, port, colors, cap) ==
    /\ Len(shapes) < cap
    /\ \E w \in {CreateShape(World, "circle", colors[(Len(shapes) % Len(colors)) + 1])} :
            Install(Receive(w, m, Len(w.shapes), port))
    /\ op' = [name |-> "receive", m |-> m, ret |-> port]

\* a stacker, TheMachine, wired to an output, started
StackerBuilt ==
    \E w1 \in {Build(EmptyWorld, "stacker", 1, 3, NoKw)} :
    \E w2 \in {Build(w1, "output", 3, 3, NoKw)} :
    \E w3 \in {Connect(w2, TheMachine, TheSink, "output", "input")} :
        Holds(Start(w3))

MaxStackShapes == 4

(***************************************************************************)
(* A machine and the connections that leave it: TheMachine, a splitter or  *)
(* a conveyor, with one connection for each port of a list of ports, the   *)
(* k-th to an output of its own, machine k + 1.                            *)
(***************************************************************************)
RouteKinds == {"splitter", "conveyor"}
RoutePorts == {"output", "output_true", "output_false"}
MaxOuts == 2
MaxRouteShapes == 3

\* factory.connect(TheMachine, a new output, ports[k], "input"), from the
\* k-th port on
RECURSIVE Wired(_, _, _)
Wired(w, ports, k) ==
    IF k > Len(ports)
    THEN w
    ELSE Wired(Connect(Build(w, "output", 1 + 2 * k, 3, NoKw),
                       TheMachine, k + 1, ports[k], "input"),
               ports, k + 1)

RouteBuilt ==
    \E kind \in RouteKinds :
    \E n \in 0..MaxOuts :
    \E ports \in [1..n -> RoutePorts] :
    \E w1 \in {Build(EmptyWorld, kind, 1, 3, NoKw)} :
        Holds(Start(Wired(w1, ports, 1)))

\* m.receive(ShapePackage("list"))
DoFeedPackage(m, cap) ==
    /\ Len(shapes) < cap
    /\ \E w \in {[World EXCEPT !.shapes = Append(@, ShapePackageInit("list"))]} :
            Install(Receive(w, m, Len(w.shapes), "input"))
    /\ op' = [name |-> "receive", m |-> m, ret |-> None]

(***************************************************************************)
(* A line: a source, a conveyor, a rotator and an output, each wired to    *)
(* the next, started.  The machines are added to the factory in the order  *)
(* of the line or in the opposite order.                                   *)
(***************************************************************************)
LineLength == 4
LineOrders == {<<1, 2, 3, 4>>, <<4, 3, 2, 1>>}
LineDts == {4, 10}
MaxLineShapes == 5

\* factory.add_machine(m) for the machines of ms, from the i-th on
RECURSIVE AddedAll(_, _, _)
AddedAll(w, ms, i) ==
    IF i > Len(ms) THEN w ELSE AddedAll(AddMachine(w, ms[i]).w, ms, i + 1)

\* factory.connect(k, k + 1) for the machines from the k-th to the n-th
RECURSIVE Chained(_, _, _)
Chained(w, k, n) ==
    IF k >= n THEN w ELSE Chained(Connect(w, k, k + 1, "output", "input"), k + 1, n)

LineBuilt ==
    \E order \in LineOrders :
    \E w \in {[EmptyWorld EXCEPT !.heap =
                <<CreateMachineObject("source", 1, 3, NoKw),
                  CreateMachineObject("conveyor", 3, 3, NoKw),
                  CreateMachineObject("rotator", 5, 3, NoKw),
                  CreateMachineObject("output", 7, 3, NoKw)>>]} :
        Holds(Start(Chained(AddedAll(w, order, 1), 1, LineLength)))

(***************************************************************************)
(* A factory that is built, started and updated while its speed is set.    *)
(***************************************************************************)
TickDts == {4}
TickSpeeds == {1, 2}
MaxSpeed == 4
MaxTickShapes == 1

\* GameEngine.set_speed(speed), for a speed of 1 or more
SetSpeed(w, speed) ==
    [w EXCEPT !.f.speed = IF speed > MaxSpeed THEN MaxSpeed ELSE speed]

\* game_engine.set_speed(speed), for a speed of speeds
DoSetSpeed(speeds) ==
    \E s \in speeds :
        /\ s # factory.speed
        /\ Install(SetSpeed(World, s))
        /\ op' = [name |-> "set_speed", m |-> 0, ret |-> None]

(***************************************************************************)
(* An output that is handed shapes and packages, given targets, updated    *)
(* and reset.  It stands alone, or is wired to a second output that would  *)
(* receive what it emitted.                                                *)
(***************************************************************************)
OutDts == {2, 5}
TargetColors == {"red"}
TargetCounts == {1, 2}
MaxOutShapes == 5

OutBuilt ==
    \E wired \in BOOLEAN :
    \E w1 \in {Build(EmptyWorld, "output", 1, 3, NoKw)} :
    \E w2 \in {Build(w1, "output", 3, 3, NoKw)} :
    \E w3 \in {IF wired THEN Connect(w2, TheMachine, TheSink, "output", "input")
                        ELSE w2} :
        Holds(Start(w3))

\* m.set_target(create_shape("circle", c), n) for a color c of colors and a
\* count n of counts
DoSetTarget(m, colors, counts, cap) ==
    /\ Len(shapes) < cap
    /\ \E c \in colors, n \in counts :
        \E w \in {CreateShape(World, "circle", c)} :
            Install(SetTarget(w, m, Len(w.shapes), n))
    /\ op' = [name |-> "set_target", m |-> m, ret |-> None]

(***************************************************************************)
(* A packer of some pack size wired to an output, started, and handed      *)
(* shapes and packages.                                                    *)
(***************************************************************************)
PackSizes == {1, 2, 3}
MaxGroupShapes == 8

GroupBuilt ==
    \E n \in PackSizes :
    \E w1 \in {Build(EmptyWorld, "packer", 1, 3, [pack_size |-> n])} :
    \E w2 \in {Build(w1, "output", 3, 3, NoKw)} :
    \E w3 \in {Connect(w2, TheMachine, TheSink, "output", "input")} :
        Holds(Start(w3))

(***************************************************************************)
(* A comprehension machine with a transform and a filter, wired to an      *)
(* output, started, and handed packages of shapes.                         *)
(***************************************************************************)
PackageColors == {<<>>, <<"red">>, <<"blue">>, <<"blue", "red">>, <<"red", "blue">>}
MaxCompShapes == 7

CompBuilt ==
    \E t \in TransformCodes, f \in FilterCodes :
    \E w1 \in {Build(EmptyWorld, "comprehension", 1, 3, NoKw)} :
    \E w2 \in {Build(w1, "output", 3, 3, NoKw)} :
    \E w3 \in {Connect(w2, TheMachine, TheSink, "output", "input")} :
        Holds(Start(SetComprehension(w3, TheMachine, t, f)))

\* the world with circles of the colors cs made and appended to package p,
\* from the i-th color on
RECURSIVE Filled(_, _, _, _)
Filled(w, p, cs, i) ==
    IF i > Len(cs)
    THEN w
    ELSE Filled([CreateShape(w, "circle", cs[i]) EXCEPT
                    !.shapes[p].items = Append(@, Len(w.shapes) + 1)],
                p, cs, i + 1)

\* p = ShapePackage(); p.append(create_shape("circle", c)) for the colors c
\* of a sequence of contents; m.receive(p)
DoFeedFilled(m, contents, cap) ==
    /\ \E cs \in contents :
        /\ Len(shapes) + 1 + Len(cs) <= cap
        /\ \E w \in {Filled([World EXCEPT !.shapes = Append(@, ShapePackageInit("list"))],
                            Len(shapes) + 1, cs, 1)} :
                Install(Receive(w, m, Len(shapes) + 1, "input"))
    /\ op' = [name |-> "receive", m |-> m, ret |-> None]

(***************************************************************************)
(* The code-change handler with parse run line by line: once parse has     *)
(* returned, the handler goes on with what parse left in the parser.       *)
(***************************************************************************)
\* what parse returns, and the attributes of the parser, as a record
Parsed ==
    [line_num |-> line_num, machines |-> p_machines, connections |-> p_connections,
     variables |-> variables, error |-> error, error_line |-> error_line,
     machine_x |-> machine_x]

\* _on_code_change after the call of parse
DoRebuild ==
    /\ pc = "done"
    /\ pc' = "rebuilt"
    /\ Install(CodeChange(World, Parsed, code))
    /\ op' = [name |-> "rebuild", m |-> 0, ret |-> None]
    /\ UNCHANGED <<code, line_num, p_machines, p_connections, variables, error,
                   error_line, machine_x>>

(***************************************************************************)
(* Scripts in which names are assigned again between connect lines.        *)
(***************************************************************************)
MaxRedeclLines == 5

RedeclLib ==
    { AssignLine("a", "Source", <<Q("circle"), COMMA, SP, Q("white")>>),
      AssignLine("a", "Rotator", <<W("180")>>),
      AssignLine("b", "Output", <<>>),
      ConnectLine("a", "b"),
      ConnectLine("b", "a"),
      <<SP>> }

RedeclScripts == UNION { [1..n -> RedeclLib] : n \in 1..MaxRedeclLines }

(***************************************************************************)
(* The editor is given a script that declares a source, a rotator and an   *)
(* output in a line, and the factory built from it is run.                 *)
(***************************************************************************)
TurnArgs == {<<>>, <<W("180")>>, <<W("270")>>}
TurnScripts ==
    { <<AssignLine("a", "Source", <<Q("circle"), COMMA, SP, Q("white")>>),
        AssignLine("r", "Rotator", args),
        AssignLine("b", "Output", <<>>),
        ConnectLine("a", "r"),
        ConnectLine("r", "b")>> : args \in TurnArgs }
TurnDts == {5, 10}
MaxTurnShapes == 3

(***************************************************************************)
(* Factories of pass-through machines, every one but an output with one     *)
(* outgoing connection on port "output": a line, two sources that feed one  *)
(* conveyor, and a ring of a conveyor and a rotator fed by a source.        *)
(***************************************************************************)
FlowPlans ==
    { [kinds |-> <<"source", "painter", "output">>,
       wires |-> << <<1, 2>>, <<2, 3>> >>],
      [kinds |-> <<"source", "source", "conveyor", "output">>,
       wires |-> << <<1, 3>>, <<2, 3>>, <<3, 4>> >>],
      [kinds |-> <<"source", "conveyor", "rotator">>,
       wires |-> << <<1, 2>>, <<2, 3>>, <<3, 2>> >>] }
FlowDts == {4, 10}
MaxFlowShapes == 3

\* create_machine and factory.add_machine for the kinds from the i-th on
RECURSIVE BuiltAll(_, _, _)
BuiltAll(w, kinds, i) ==
    IF i > Len(kinds)
    THEN w
    ELSE BuiltAll(Build(w, kinds[i], 2 * i - 1, 3, NoKw), kinds, i + 1)

\* factory.connect(a, b) for the wires from the i-th on
RECURSIVE WiredAll(_, _, _)
WiredAll(w, wires, i) ==
    IF i > Len(wires)
    THEN w
    ELSE WiredAll(Connect(w, wires[i][1], wires[i][2], "output", "input"), wires, i + 1)

FlowBuilt ==
    \E plan \in FlowPlans :
        Holds(Start(WiredAll(BuiltAll(EmptyWorld, plan.kinds, 1), plan.wires, 1)))

(***************************************************************************)
(* A conveyor, TheMachine, and an output, TheSink, started and not wired.   *)
(* The conveyor is handed shapes, connections from it to the output are     *)
(* made on one port or another, and the factory is updated and reset.       *)
(***************************************************************************)
MaxStoreShapes == 3

StoreBuilt ==
    \E w1 \in {Build(EmptyWorld, "conveyor", 1, 3, NoKw)} :
    \E w2 \in {Build(w1, "output", 3, 3, NoKw)} :
        Holds(Start(w2))

\* factory.connect(TheMachine, TheSink, port, "input"), for a port of ports
DoJoin(ports) ==
    /\ Len(conns) < MaxOuts
    /\ \E port \in ports :
            Install(Connect(World, TheMachine, TheSink, port, "input"))
    /\ op' = [name |-> "connect", m |-> TheMachine, ret |-> Len(conns) + 1]

(***************************************************************************)
(* A cutter, TheMachine, wired to an output, TheSink, that has a target,    *)
(* started.  The cutter is handed shapes that equal the target and shapes   *)
(* that do not.                                                            *)
(***************************************************************************)
CutShapes ==
    { ShapeInit("circle", "red"),
      Rotate(ShapeInit("circle", "red"), 90),
      ShapeInit("square", "red"),
      Stack(ShapeInit("circle", "red"), Rotate(ShapeInit("circle", "white"), 90)) }
CutDts == {5, 10}
MaxCutShapes == 7

\* the shapes made to be handed to the cutter: not the target, not a half
Originals(w) ==
    { i \in 1..Len(w.shapes) :
        /\ i # w.heap[TheSink].target_shape
        /\ "half" \notin DOMAIN w.shapes[i].metadata }

CutBuilt ==
    \E target \in CutShapes :
    \E w1 \in {Build(EmptyWorld, "cutter", 1, 3, NoKw)} :
    \E w2 \in {Build(w1, "output", 3, 3, NoKw)} :
    \E w3 \in {Connect(w2, TheMachine, TheSink, "output", "input")} :
    \E w4 \in {[w3 EXCEPT !.shapes = Append(@, target)]} :
        Holds(Start(SetTarget(w4, TheSink, 1, 1)))

\* m.receive(s) for a new shape s of a set, while the halves of the shapes
\* handed over fit in cap shapes
DoFeedShape(m, set, cap) ==
    /\ 1 + 3 * (Cardinality(Originals(World)) + 1) <= cap
    /\ \E s \in set :
        \E w \in {[World EXCEPT !.shapes = Append(@, s)]} :
            Install(Receive(w, m, Len(w.shapes), "input"))
    /\ op' = [name |-> "receive", m |-> m, ret |-> None]

(***************************************************************************)
(* The GameEngine (game_engine.py) in the modes menu and playing.  The      *)
(* level in play owns the factory; db.update_progress is counted in         *)
(* engine.saves.  The sandbox, which has a factory of its own, is left out. *)
(***************************************************************************)
TheUser == "player"
EngineDts == {10}
MaxEngineObjects == 4
MaxEngineShapes == 4
MaxSaves == 3

\* GameEngine._on_level_completed: without a level or a user nothing is
\* done; otherwise db.update_progress is called and the achievements are
\* checked
OnLevelCompleted(e) ==
    IF ~e.current_level \/ e.current_user = None
    THEN e
    ELSE [e EXCEPT !.saves = @ + 1]

\* GameEngine.update that calls the handler in the update that completes the
\* level and in no later one
EngineUpdateOnce(w, e, dt) ==
    IF e.mode = "playing" /\ e.current_level
    THEN [w |-> LevelUpdate(w, dt),
          e |-> IF /\ LevelUpdate(w, dt).raised = None
                   /\ LevelUpdate(w, dt).is_completed
                   /\ ~w.is_completed
                THEN OnLevelCompleted(e)
                ELSE e]
    ELSE [w |-> w, e |-> e]

\* GameEngine.update; an exception of Level.update leaves it before the
\* handler is reached
EngineUpdate(w, e, dt) ==
    IF e.mode = "playing" /\ e.current_level
    THEN [w |-> LevelUpdate(w, dt),
          e |-> IF /\ LevelUpdate(w, dt).raised = None
                   /\ LevelUpdate(w, dt).is_completed
                THEN OnLevelCompleted(e)
                ELSE e]
    ELSE [w |-> w, e |-> e]

\* game_engine.login(username, password) with the password of the user
DoLogin ==
    /\ engine.current_user = None
    /\ engine' = [engine EXCEPT !.current_user = TheUser]
    /\ op' = [name |-> "login", m |-> 0, ret |-> TRUE]
    /\ UNCHANGED <<heap, conns, factory, shapes, is_completed>>

\* game_engine.logout()
DoLogout ==
    /\ engine.current_user # None
    /\ engine' = [engine EXCEPT !.current_user = None, !.current_level = FALSE,
                                !.mode = "menu"]
    /\ op' = [name |-> "logout", m |-> 0, ret |-> None]
    /\ UNCHANGED <<heap, conns, factory, shapes, is_completed>>

\* game_engine.load_level(level_id), for a level with target_data of targets
DoLoadLevel(targets) ==
    /\ Len(heap) + 2 <= MaxEngineObjects
    /\ \E target_data \in targets :
            InstallWorld(LevelSetup(World, target_data))
    /\ engine' = [engine EXCEPT !.current_level = TRUE, !.mode = "playing"]
    /\ op' = [name |-> "load_level", m |-> 0, ret |-> TRUE]

\* game_engine.update(dt) for a step of dts, while no more than cap shapes
\* exist
DoEngineUpdate(dts, cap) ==
    \E dt \in dts :
        \E r \in {EngineUpdate(World, engine, dt)} :
            /\ Len(r.w.shapes) <= cap
            /\ r.e.saves <= MaxSaves
            /\ InstallWorld(r.w)
            /\ engine' = r.e
            /\ op' = [name |-> "engine_update", m |-> 0, ret |-> r.w.raised]

(***************************************************************************)
(* Specifications.                                                         *)
(***************************************************************************)
\* one call of parse on a new CodeParser; the factory is not touched
InitParse == code \in Scripts /\ pc = "parse" /\ ParserNew /\ InitGraph

NextParse == ParseLine /\ UNCHANGED graphVars

SpecParse == InitParse /\ [][NextParse]_vars

\* the calls on a new Factory; the parser is not called
Init == code = <<>> /\ pc = "idle" /\ ParserNew /\ InitGraph

Next ==
    \/ DoCreateMachine(PlainConstructors) /\ UNCHANGED parserVars
    \/ DoAddMachine /\ UNCHANGED parserVars
    \/ DoRemoveMachine /\ UNCHANGED parserVars
    \/ DoConnect(DefaultPorts) /\ UNCHANGED parserVars
    \/ DoClear /\ UNCHANGED parserVars

Spec == Init /\ [][Next]_vars

\* building a factory and serializing it
NextDict ==
    \/ DoCreateMachine(Constructors) /\ UNCHANGED parserVars
    \/ DoAddMachine /\ UNCHANGED parserVars
    \/ DoRemoveMachine /\ UNCHANGED parserVars
    \/ DoConnect(Ports) /\ UNCHANGED parserVars
    \/ DoRoundTrip /\ UNCHANGED parserVars

SpecDict == Init /\ [][NextDict]_vars

\* building a factory and running it
NextSim ==
    \/ DoCreateMachine(SimConstructors) /\ UNCHANGED parserVars
    \/ DoAddMachine /\ UNCHANGED parserVars
    \/ DoRemoveMachine /\ UNCHANGED parserVars
    \/ DoConnect(DefaultPorts) /\ UNCHANGED parserVars
    \/ DoStart /\ UNCHANGED parserVars
    \/ DoStop /\ UNCHANGED parserVars
    \/ DoUpdate /\ UNCHANGED parserVars

SpecSim == Init /\ [][NextSim]_vars

\* the frames of a started source-to-output factory; the main loop calls
\* update on every frame for as long as the program runs
InitGoal ==
    /\ code = <<>> /\ pc = "idle" /\ ParserNew
    /\ GoalBuilt
    /\ op = NoOp

NextGoal == DoUpdateOf(GoalDts, MaxGoalShapes) /\ UNCHANGED parserVars

SpecGoal == InitGoal /\ [][NextGoal]_vars /\ WF_vars(NextGoal)

\* a built factory that is started, updated, stopped and reset
InitRun ==
    /\ code = <<>> /\ pc = "idle" /\ ParserNew
    /\ PackerBuilt \/ TargetBuilt
    /\ op = NoOp

NextRun ==
    \/ DoStart /\ UNCHANGED parserVars
    \/ DoStop /\ UNCHANGED parserVars
    \/ DoReset /\ UNCHANGED parserVars
    \/ DoUpdateOf(RunDts, MaxRunShapes) /\ UNCHANGED parserVars

SpecRun == InitRun /\ [][NextRun]_vars

\* a shape, and the calls of its methods
InitShape ==
    /\ code = <<>> /\ pc = "idle" /\ ParserNew
    /\ heap = <<>> /\ conns = <<>> /\ factory = FactoryInit
    /\ \E s \in Layered(MaxLayers) : shapes = <<s>>
    /\ op = NoOp
    /\ is_completed = FALSE
    /\ engine = EngineInit

NextShape ==
    \/ DoRotate /\ UNCHANGED parserVars
    \/ DoFullTurn /\ UNCHANGED parserVars
    \/ DoPaint /\ UNCHANGED parserVars
    \/ DoMatchClone /\ UNCHANGED parserVars

SpecShape == InitShape /\ [][NextShape]_vars

\* the editor changes the text while the sandbox factory is run
NextEdit ==
    \/ DoCodeChange(EditScripts)
    \/ DoStart /\ UNCHANGED parserVars
    \/ DoUpdate /\ UNCHANGED parserVars

SpecEdit == Init /\ [][NextEdit]_vars

\* a line with a packer of either package type, started and updated; an
\* exception that leaves update ends the loop that calls it
InitPack ==
    /\ code = <<>> /\ pc = "idle" /\ ParserNew
    /\ PackerOfTypeBuilt
    /\ op = NoOp

NextPack ==
    \/ DoStart /\ UNCHANGED parserVars
    \/ DoStop /\ UNCHANGED parserVars
    \/ op.ret = None /\ DoUpdateOf(RunDts, MaxRunShapes) /\ UNCHANGED parserVars

SpecPack == InitPack /\ [][NextPack]_vars

\* a started splitter that is fed shapes while the frames go by
InitSplit ==
    /\ code = <<>> /\ pc = "idle" /\ ParserNew
    /\ SplitBuilt
    /\ op = NoOp

NextSplit ==
    \/ DoFeed(TheSplitter, FedColors, MaxSplitShapes) /\ UNCHANGED parserVars
    \/ DoUpdateOf(SplitDts, MaxSplitShapes) /\ UNCHANGED parserVars

SpecSplit == InitSplit /\ [][NextSplit]_vars

\* a level that is set up, wired by the player, run, reset and set up again;
\* level.start is factory.start
NextLevel ==
    \/ DoLevelSetup(LevelTargets) /\ UNCHANGED parserVars
    \/ DoLevelConnect /\ UNCHANGED parserVars
    \/ DoLevelRemove /\ UNCHANGED parserVars
    \/ DoStart /\ UNCHANGED parserVars
    \/ DoLevelReset /\ UNCHANGED parserVars
    \/ DoLevelUpdate(LevelDts, MaxLevelShapes) /\ UNCHANGED parserVars

SpecLevel == Init /\ [][NextLevel]_vars

\* a machine that is handed shapes and updated
InitMach ==
    /\ code = <<>> /\ pc = "idle" /\ ParserNew
    /\ MachBuilt
    /\ op = NoOp

NextMach ==
    \/ DoFeed(TheMachine, FedColors, MaxMachShapes) /\ UNCHANGED parserVars
    \/ DoUpdateOf(MachDts, MaxMachShapes) /\ UNCHANGED parserVars

SpecMach == InitMach /\ [][NextMach]_vars

\* a stacker that is handed shapes on its two ports and updated
InitStack ==
    /\ code = <<>> /\ pc = "idle" /\ ParserNew
    /\ StackerBuilt
    /\ op = NoOp

NextStack ==
    \/ DoFeedAt(TheMachine, "input", FedColors, MaxStackShapes) /\ UNCHANGED parserVars
    \/ DoFeedAt(TheMachine, "input2", FedColors, MaxStackShapes) /\ UNCHANGED parserVars
    \/ DoUpdateOf(MachDts, MaxStackShapes) /\ UNCHANGED parserVars

SpecStack == InitStack /\ [][NextStack]_vars

\* a splitter or a conveyor that is handed shapes and packages and updated
InitRoute ==
    /\ code = <<>> /\ pc = "idle" /\ ParserNew
    /\ RouteBuilt
    /\ op = NoOp

NextRoute ==
    \/ DoFeed(TheMachine, FedColors, MaxRouteShapes) /\ UNCHANGED parserVars
    \/ DoFeedPackage(TheMachine, MaxRouteShapes) /\ UNCHANGED parserVars
    \/ DoUpdateOf(MachDts, MaxRouteShapes) /\ UNCHANGED parserVars

SpecRoute == InitRoute /\ [][NextRoute]_vars

\* the line is updated; shapes handed to its conveyor crowd it
InitLine ==
    /\ code = <<>> /\ pc = "idle" /\ ParserNew
    /\ LineBuilt
    /\ op = NoOp

NextLine ==
    \/ DoFeed(2, FedColors, MaxLineShapes) /\ UNCHANGED parserVars
    \/ DoUpdateOf(LineDts, MaxLineShapes) /\ UNCHANGED parserVars

SpecLine == InitLine /\ [][NextLine]_vars

\* building a factory, starting it, setting its speed and updating it
NextTick ==
    \/ DoCreateMachine(SimConstructors) /\ UNCHANGED parserVars
    \/ DoAddMachine /\ UNCHANGED parserVars
    \/ DoRemoveMachine /\ UNCHANGED parserVars
    \/ DoConnect(DefaultPorts) /\ UNCHANGED parserVars
    \/ DoStart /\ UNCHANGED parserVars
    \/ DoSetSpeed(TickSpeeds) /\ UNCHANGED parserVars
    \/ DoUpdateOf(TickDts, MaxTickShapes) /\ UNCHANGED parserVars

SpecTick == Init /\ [][NextTick]_vars

\* an output that is fed, given targets, updated and reset
InitOut ==
    /\ code = <<>> /\ pc = "idle" /\ ParserNew
    /\ OutBuilt
    /\ op = NoOp

NextOut ==
    \/ DoFeed(TheMachine, FedColors, MaxOutShapes) /\ UNCHANGED parserVars
    \/ DoFeedPackage(TheMachine, MaxOutShapes) /\ UNCHANGED parserVars
    \/ DoSetTarget(TheMachine, TargetColors, TargetCounts, MaxOutShapes)
            /\ UNCHANGED parserVars
    \/ DoReset /\ UNCHANGED parserVars
    \/ DoStart /\ UNCHANGED parserVars
    \/ DoUpdateOf(OutDts, MaxOutShapes) /\ UNCHANGED parserVars

SpecOut == InitOut /\ [][NextOut]_vars

\* a packer that is handed shapes and packages and updated
InitGroup ==
    /\ code = <<>> /\ pc = "idle" /\ ParserNew
    /\ GroupBuilt
    /\ op = NoOp

NextGroup ==
    \/ DoFeed(TheMachine, FedColors, MaxGroupShapes) /\ UNCHANGED parserVars
    \/ DoFeedPackage(TheMachine, MaxGroupShapes) /\ UNCHANGED parserVars
    \/ DoUpdateOf(MachDts, MaxGroupShapes) /\ UNCHANGED parserVars

SpecGroup == InitGroup /\ [][NextGroup]_vars

\* a comprehension machine that is handed packages and updated
InitComp ==
    /\ code = <<>> /\ pc = "idle" /\ ParserNew
    /\ CompBuilt
    /\ op = NoOp

NextComp ==
    \/ DoFeedFilled(TheMachine, PackageColors, MaxCompShapes) /\ UNCHANGED parserVars
    \/ DoUpdateOf(MachDts, MaxCompShapes) /\ UNCHANGED parserVars

SpecComp == InitComp /\ [][NextComp]_vars

\* the editor hands a script to the code-change handler of a sandbox whose
\* factory is empty or holds a machine already
InitBuild ==
    /\ code \in Scripts /\ pc = "parse" /\ ParserNew
    /\ \E w \in {EmptyWorld, Build(EmptyWorld, "conveyor", 1, 3, NoKw)} : Holds(w)
    /\ op = NoOp

NextBuild ==
    \/ ParseLine /\ UNCHANGED graphVars
    \/ DoRebuild

SpecBuild == InitBuild /\ [][NextBuild]_vars

\* one call of parse on a script that may assign a name again
InitRedecl == code \in RedeclScripts /\ pc = "parse" /\ ParserNew /\ InitGraph

NextRedecl == ParseLine /\ UNCHANGED graphVars

SpecRedecl == InitRedecl /\ [][NextRedecl]_vars

\* the editor builds the line of a script, and the line is run
NextTurn ==
    \/ DoCodeChange(TurnScripts)
    \/ DoStart /\ UNCHANGED parserVars
    \/ DoUpdateOf(TurnDts, MaxTurnShapes) /\ UNCHANGED parserVars

SpecTurn == Init /\ [][NextTurn]_vars

\* factories of pass-through machines are updated, stopped and started
InitFlow ==
    /\ code = <<>> /\ pc = "idle" /\ ParserNew
    /\ FlowBuilt
    /\ op = NoOp

NextFlow ==
    \/ DoUpdateOf(FlowDts, MaxFlowShapes) /\ UNCHANGED parserVars
    \/ DoStop /\ factory.running /\ UNCHANGED parserVars
    \/ DoStart /\ ~factory.running /\ UNCHANGED parserVars

SpecFlow == InitFlow /\ [][NextFlow]_vars

\* a conveyor is handed shapes, wired, updated and reset
InitStore ==
    /\ code = <<>> /\ pc = "idle" /\ ParserNew
    /\ StoreBuilt
    /\ op = NoOp

NextStore ==
    \/ DoFeed(TheMachine, FedColors, MaxStoreShapes) /\ UNCHANGED parserVars
    \/ DoJoin(RoutePorts) /\ UNCHANGED parserVars
    \/ DoUpdateOf(MachDts, MaxStoreShapes) /\ UNCHANGED parserVars
    \/ DoReset /\ UNCHANGED parserVars
    \/ DoStart /\ ~factory.running /\ UNCHANGED parserVars

SpecStore == InitStore /\ [][NextStore]_vars

\* a cutter in front of an output with a target is handed shapes and updated
InitCut ==
    /\ code = <<>> /\ pc = "idle" /\ ParserNew
    /\ CutBuilt
    /\ op = NoOp

NextCut ==
    \/ DoFeedShape(TheMachine, CutShapes, MaxCutShapes) /\ UNCHANGED parserVars
    \/ DoUpdateOf(CutDts, MaxCutShapes) /\ UNCHANGED parserVars

SpecCut == InitCut /\ [][NextCut]_vars

\* a user logs in and out, levels are loaded, and the level in play is
\* wired, run, reset and updated by the engine
Playing == engine.mode = "playing" /\ engine.current_level

NextEngine ==
    \/ DoLogin /\ UNCHANGED parserVars
    \/ DoLogout /\ UNCHANGED parserVars
    \/ DoLoadLevel(LevelTargets) /\ UNCHANGED parserVars
    \/ Playing /\ DoLevelConnect /\ UNCHANGED parserVars
    \/ Playing /\ ~factory.running /\ DoStart /\ UNCHANGED parserVars
    \/ Playing /\ DoLevelReset /\ UNCHANGED parserVars
    \/ DoEngineUpdate(EngineDts, MaxEngineShapes) /\ UNCHANGED parserVars

SpecEngine == Init /\ [][NextEngine]_vars

(***************************************************************************)
(* The grammar of the mini-language, as the specification states it.  The  *)
(* definitions below read the source text only; they use none of the       *)
(* parser's operators.                                                     *)
(***************************************************************************)
NoSp(line) == SelectSeq(line, LAMBDA tok : tok # SP)

IsLiteral(tok) == tok.t \in {"w", "q", "b"}

\* a comma-separated list of literals, possibly empty
IsArgList(toks) ==
    \/ toks = <<>>
    \/ /\ Len(toks) % 2 = 1
       /\ \A i \in 1..Len(toks) :
            IF i % 2 = 1 THEN IsLiteral(toks[i]) ELSE toks[i] = COMMA

IsBlankOrComment(line) == NoSp(line) = <<>> \/ NoSp(line)[1].t = "c"

\* identifier = TypeName(args)
WellFormedAssignment(line) ==
    LET t == NoSp(line)
    IN  /\ Len(t) >= 5
        /\ t[1].t = "w" /\ t[2] = EQ /\ t[3].t = "w" /\ t[4] = LP
        /\ t[Len(t)] = RP
        /\ IsArgList(SubSeq(t, 5, Len(t) - 1))

\* identifier1.connect(identifier2)
WellFormedConnect(line) ==
    LET t == NoSp(line)
        l == Strip(line)
    IN  /\ Len(t) = 5
        /\ t[1].t = "w" /\ t[2] = DOTCONNECT /\ t[3] = LP /\ t[4].t = "w"
        /\ t[5] = RP
        /\ l[2] = DOTCONNECT /\ l[3] = LP

AssignedName(line) == NoSp(line)[1].v
AssignedType(line) == NoSp(line)[3].v
AssignmentArgs(line) == LET t == NoSp(line) IN SubSeq(t, 5, Len(t) - 1)
ConnectFrom(line) == NoSp(line)[1].v
ConnectTo(line) == NoSp(line)[4].v

\* the type names the parser supports, compared without regard to case
SupportedType(name) ==
    \E k \in {"source", "painter", "rotator", "splitter", "output", "looper",
              "function", "packer"} : Lower(name) = k

\* the 1-based positions of the assignment lines among the first n lines
AssignmentLines(script, n) ==
    SelectSeq([i \in 1..n |-> i], LAMBDA i : WellFormedAssignment(script[i]))

ConnectLines(script) ==
    SelectSeq([i \in 1..Len(script) |-> i],
              LAMBDA i : WellFormedConnect(script[i]))

\* the names assigned on the lines before line i
NamesAssignedBefore(script, i) ==
    { AssignedName(script[j]) : j \in { k \in 1..(i - 1) : WellFormedAssignment(script[k]) } }

\* the 0-based index, among the machines, of the latest assignment of name
\* before line i
LatestIndexBefore(script, i, name) ==
    LET js == { j \in 1..(i - 1) : /\ WellFormedAssignment(script[j])
                                   /\ AssignedName(script[j]) = name }
        j == CHOOSE k \in js : \A k2 \in js : k2 <= k
    IN  Len(AssignmentLines(script, j)) - 1

\* every line is blank, a comment, a well-formed assignment of a supported
\* type, or a well-formed connect of names assigned earlier
ValidLine(script, i) ==
    \/ IsBlankOrComment(script[i])
    \/ WellFormedAssignment(script[i]) /\ SupportedType(AssignedType(script[i]))
    \/ /\ WellFormedConnect(script[i])
       /\ ConnectFrom(script[i]) \in NamesAssignedBefore(script, i)
       /\ ConnectTo(script[i]) \in NamesAssignedBefore(script, i)

ValidScript(script) == \A i \in 1..Len(script) : ValidLine(script, i)

\* an assignment whose arguments the parser converts without complaint: a
\* Rotator's first argument is an integer literal, and no argument holds the
\* text .connect
ConvertibleArgs(line) ==
    LET args == AssignmentArgs(line)
    IN  /\ Lower(AssignedType(line)) = "rotator" /\ args # <<>>
            => args[1].v \in {"90", "180", "270", "-90", "45"}
        /\ \A k \in 1..Len(args) : args[k].v # ".connect"

StrictValidLine(script, i) ==
    /\ ValidLine(script, i)
    /\ WellFormedAssignment(script[i]) => ConvertibleArgs(script[i])

StrictValidScript(script) == \A i \in 1..Len(script) : StrictValidLine(script, i)

\* what the claim expects of a valid script: one (line, name, type) entry
\* per assignment line, one index pair per connect line, in source order
ExpectedMachines(script) ==
    LET ls == AssignmentLines(script, Len(script))
    IN  [k \in 1..Len(ls) |->
            <<ls[k] - 1, AssignedName(script[ls[k]]),
              Lower(AssignedType(script[ls[k]]))>>]

ExpectedConnections(script) ==
    LET ls == ConnectLines(script)
    IN  [k \in 1..Len(ls) |->
            <<LatestIndexBefore(script, ls[k], ConnectFrom(script[ls[k]])),
              LatestIndexBefore(script, ls[k], ConnectTo(script[ls[k]]))>>]

MachineView(ms) == [k \in 1..Len(ms) |-> <<ms[k].line, ms[k].var_name, ms[k].type>>]

ParseSucceeded ==
    /\ error = NoError
    /\ error_line = 0 - 1
    /\ MachineView(p_machines) = ExpectedMachines(code)
    /\ p_connections = ExpectedConnections(code)

(***************************************************************************)
(* C1, as claimed: for every script whose non-blank, non-comment lines are *)
(* well-formed assignments of a supported type or well-formed connects of  *)
(* names assigned earlier, parse returns no error, one machine per         *)
(* assignment line and one connection per connect line, in source order.   *)
(***************************************************************************)
C1_Original == (pc = "done" /\ ValidScript(code)) => ParseSucceeded

\* what the parser does deliver: the same result, for the valid scripts in
\* which a Rotator's first argument (when given) is an integer literal and
\* no assignment argument holds the text .connect
StrictValidScriptParses == (pc = "done" /\ StrictValidScript(code)) => ParseSucceeded

StrictValidScriptParsed ==
    /\ pc = "done"
    /\ StrictValidScript(code)
    /\ Len(p_machines) >= 2
    /\ p_connections # <<>>

(***************************************************************************)
(* C2, as claimed: a line that is not blank, not a comment, not a          *)
(* well-formed assignment and not a well-formed connect makes parse return *)
(* an error whose error_line is that line's 0-based index.  Stated for the *)
(* first such line of a script whose earlier lines are all valid.          *)
(***************************************************************************)
Malformed(line) ==
    /\ ~IsBlankOrComment(line)
    /\ ~WellFormedAssignment(line)
    /\ ~WellFormedConnect(line)

C2_Original ==
    pc = "done" =>
        \A i \in 1..Len(code) :
            (/\ Malformed(code[i])
             /\ \A j \in 1..(i - 1) : StrictValidLine(code, j))
            => (error # NoError /\ error_line = i - 1)

(***************************************************************************)
(* C3: when parse reports an error at line i, the loop has stopped there   *)
(* (nothing is enabled any more), error_line is i, and the failing line    *)
(* has added no machine and no connection: the step that sets the error    *)
(* leaves both lists as the earlier lines made them, and every machine     *)
(* entry comes from a line before i.                                       *)
(***************************************************************************)
C3_ErrorStopsAtLine ==
    /\ [](error # NoError =>
            /\ pc = "done"
            /\ ~ENABLED ParseLine
            /\ error_line = line_num
            /\ \A k \in 1..Len(p_machines) : p_machines[k].line < error_line
            /\ Len(p_machines) + Len(p_connections) <= error_line)
    /\ [][(error = NoError /\ error' # NoError) =>
            /\ p_machines' = p_machines
            /\ p_connections' = p_connections
            /\ error_line' = line_num]_vars

C3_Witness ==
    /\ error # NoError
    /\ error_line >= 1
    /\ error_line + 1 < Len(code)
    /\ p_machines # <<>>
    /\ WellFormedAssignment(code[error_line + 1])

(***************************************************************************)
(* C4: a connect directive that names an identifier no earlier line        *)
(* assigns fails at its line with an undefined-variable error and appends  *)
(* no connection.                                                          *)
(***************************************************************************)
\* the names that stand left of an = sign on a line before line i, whatever
\* follows the sign
NamesWrittenBefore(script, i) ==
    { NoSp(script[j])[1].v :
        j \in { k \in 1..(i - 1) : /\ Len(NoSp(script[k])) >= 2
                                   /\ NoSp(script[k])[1].t = "w"
                                   /\ NoSp(script[k])[2] = EQ } }

DanglingConnect(script, i) ==
    /\ WellFormedConnect(script[i])
    /\ \/ ConnectFrom(script[i]) \notin NamesWrittenBefore(script, i)
       \/ ConnectTo(script[i]) \notin NamesWrittenBefore(script, i)

C4_UndefinedVariableFails ==
    [][(pc = "parse" /\ DanglingConnect(code, line_num + 1)) =>
            /\ pc' = "done"
            /\ error'[1] = "undefined variable"
            /\ error'[2] \in {ConnectFrom(code[line_num + 1]), ConnectTo(code[line_num + 1])}
            /\ error_line' = line_num
            /\ p_connections' = p_connections]_vars

\* a forward reference: the name is assigned only on a later line
C4_Witness ==
    /\ pc = "done"
    /\ error[1] = "undefined variable"
    /\ p_machines # <<>>
    /\ p_connections = <<>>
    /\ \E j \in (error_line + 2)..Len(code) :
            WellFormedAssignment(code[j]) /\ AssignedName(code[j]) = error[2]

(***************************************************************************)
(* C5, as claimed: an assignment is accepted when its type name, compared  *)
(* without regard to case, is one of the 14 machine kinds of the catalog,  *)
(* and rejected with an unknown-machine-type error at its line otherwise.  *)
(***************************************************************************)
Catalog == {"source", "output", "conveyor", "painter", "cutter", "rotator",
            "stacker", "splitter", "looper", "function", "packer", "unpacker",
            "dict_packer", "comprehension"}

C5_Original ==
    pc = "done" =>
        \A i \in 1..Len(code) :
            (/\ WellFormedAssignment(code[i])
             /\ ConvertibleArgs(code[i])
             /\ \A j \in 1..(i - 1) : StrictValidLine(code, j))
            => IF Lower(AssignedType(code[i])) \in Catalog
               THEN \E k \in 1..Len(p_machines) : p_machines[k].line = i - 1
               ELSE /\ error = UnknownMachineType(Lower(AssignedType(code[i])))
                    /\ error_line = i - 1

(***************************************************************************)
(* C6, as claimed: in every state reached by add_machine, remove_machine   *)
(* and clear calls, remove_machine of a machine that is not in the factory *)
(* included, grid maps exactly the positions of the machines in machines   *)
(* to those machines: no two machines share a cell, no grid entry lacks    *)
(* its machine, and no machine lacks its grid entry.                       *)
(***************************************************************************)
GridInvariant ==
    /\ \A i, j \in 1..Len(factory.machines) :
            i # j => Pos(heap[factory.machines[i]]) # Pos(heap[factory.machines[j]])
    /\ \A cell \in DOMAIN factory.grid :
            /\ factory.grid[cell] \in Range(factory.machines)
            /\ Pos(heap[factory.grid[cell]]) = cell
    /\ \A m \in Range(factory.machines) :
            /\ Pos(heap[m]) \in DOMAIN factory.grid
            /\ factory.grid[Pos(heap[m])] = m

C6_Original == GridInvariant

(***************************************************************************)
(* C7: add_machine(m) returns False and leaves machines, grid and          *)
(* connections as they were when the cell (m.x, m.y) is occupied;          *)
(* otherwise it returns True, appends m to machines and adds to grid the   *)
(* one entry for that cell, which holds m.                                 *)
(***************************************************************************)
C7_AddMachineContract ==
    [][op'.name = "add_machine" =>
        LET m == op'.m
            pos == Pos(heap[m])
        IN  IF pos \in DOMAIN factory.grid
            THEN /\ op'.ret = FALSE
                 /\ factory'.machines = factory.machines
                 /\ factory'.grid = factory.grid
                 /\ factory'.connections = factory.connections
            ELSE /\ op'.ret = TRUE
                 /\ factory'.machines = Append(factory.machines, m)
                 /\ DOMAIN factory'.grid = DOMAIN factory.grid \cup {pos}
                 /\ factory'.grid[pos] = m
                 /\ \A cell \in DOMAIN factory.grid :
                        factory'.grid[cell] = factory.grid[cell]
                 /\ factory'.connections = factory.connections]_vars

\* a second machine was refused at an occupied cell of a connected factory
C7_Witness ==
    /\ op.name = "add_machine"
    /\ op.ret = FALSE
    /\ op.m \notin Range(factory.machines)
    /\ factory.machines # <<>>
    /\ factory.connections # <<>>

(***************************************************************************)
(* C8: remove_machine(m), for a machine m of the factory, leaves m's cell  *)
(* free and leaves in Factory.connections no connection whose              *)
(* from_machine or to_machine is m; add_machine of another machine at m's  *)
(* (x, y), called next, returns True.                                      *)
(***************************************************************************)
Incident(c, m) == conns[c].from_machine = m \/ conns[c].to_machine = m

\* m is not in the factory and has lost its own record of a connection made
\* with it: remove_machine(m) was called (no other call empties the lists)
HasBeenRemoved(m) ==
    /\ m \notin Range(factory.machines)
    /\ \E c \in 1..Len(conns) :
            \/ conns[c].from_machine = m /\ c \notin Range(heap[m].connections_out)
            \/ conns[c].to_machine = m /\ c \notin Range(heap[m].connections_in)

C8_RemoveReclaimsCell ==
    /\ [][(op'.name = "remove_machine" /\ op'.m \in Range(factory.machines)) =>
            /\ Pos(heap[op'.m]) \notin DOMAIN factory'.grid
            /\ \A k \in 1..Len(factory'.connections) :
                    /\ conns'[factory'.connections[k]].from_machine # op'.m
                    /\ conns'[factory'.connections[k]].to_machine # op'.m]_vars
    /\ [][(/\ op.name = "remove_machine"
            /\ op'.name = "add_machine"
            /\ op'.m # op.m
            /\ Pos(heap[op'.m]) = Pos(heap[op.m])) => op'.ret = TRUE]_vars

\* a new machine stands where a connected machine was removed
C8_Witness ==
    /\ op.name = "add_machine"
    /\ op.ret = TRUE
    /\ factory.connections = <<>>
    /\ \E m \in Objects :
            /\ m # op.m
            /\ Pos(heap[m]) = Pos(heap[op.m])
            /\ HasBeenRemoved(m)

(***************************************************************************)
(* C9, as claimed: after remove_machine(m), for a machine m of the         *)
(* factory, no machine that remains in the factory holds a connection to   *)
(* or from m in its connections_out or connections_in; and so no later     *)
(* tick sends an item into, advances an item on, or delivers an item over  *)
(* a connection that has m as an endpoint: an update of a factory whose    *)
(* grid is the exact index of its machines leaves the items in transit on  *)
(* every such connection as they were.                                     *)
(***************************************************************************)
C9_Original ==
    [][/\ (op'.name = "remove_machine" /\ op'.m \in Range(factory.machines)) =>
            \A m2 \in Range(factory'.machines) :
                \A c \in Range(heap'[m2].connections_out)
                            \cup Range(heap'[m2].connections_in) :
                    ~Incident(c, op'.m)
       /\ (op'.name = "update" /\ GridInvariant) =>
            \A m \in Objects : \A c \in 1..Len(conns) :
                (HasBeenRemoved(m) /\ Incident(c, m)) =>
                    conns'[c].items_in_transit = conns[c].items_in_transit]_vars

(***************************************************************************)
(* C10: for a factory that satisfies the grid invariant and whose          *)
(* connections join machines of the factory, to_dict does not raise and    *)
(* Factory.from_dict(d).to_dict() equals d, where d = f.to_dict(): the new *)
(* factory has the same sequence of (type, x, y, config) entries and the   *)
(* same list of (from index, to index, from_port, to_port) connections.    *)
(***************************************************************************)
ConnectionsJoinMachines ==
    \A k \in 1..Len(factory.connections) :
        /\ conns[factory.connections[k]].from_machine \in Range(factory.machines)
        /\ conns[factory.connections[k]].to_machine \in Range(factory.machines)

C10_RoundTrip ==
    (op.name = "round_trip" /\ GridInvariant /\ ConnectionsJoinMachines) =>
        /\ ~op.ret.raised
        /\ op.ret.d2 = op.ret.d

\* two machines with configuration that is not the default, joined on ports
\* that are not the default either
C10_Witness ==
    /\ op.name = "round_trip"
    /\ GridInvariant
    /\ ConnectionsJoinMachines
    /\ ~op.ret.raised
    /\ Len(op.ret.d.machines) = 2
    /\ \E i \in 1..2 : /\ op.ret.d.machines[i].type = "rotator"
                         /\ op.ret.d.machines[i].config.degrees = 180
    /\ \E i \in 1..2 : op.ret.d.machines[i].type = "source"
    /\ Len(op.ret.d.connections) = 1
    /\ op.ret.d.connections[1].from # op.ret.d.connections[1].to
    /\ op.ret.d.connections[1].from_port = "output_true"

\* C11: a source of white circles wired to an output whose target is a white
\* circle with required count 3: under repeated update the output's
\* success_count reaches 3, the goal is reached, and it stays reached
C11_GoalReachedForGood ==
    <>[](heap[GoalOutput].success_count >= 3 /\ IsGoalReached(heap[GoalOutput]))

C11_Witness ==
    /\ op.name = "update"
    /\ heap[GoalOutput].success_count = 3
    /\ IsGoalReached(heap[GoalOutput])
    /\ Len(heap[GoalOutput].collected) = 3

\* the item is waiting in machine m or being processed by it
Pending(m, item) ==
    \/ item \in Range(heap[m].input_buffer)
    \/ heap[m].is_processing /\ heap[m].current_item = item

\* the item is on its way along connection c
InTransit(c, item) == \E k \in 1..Len(conns[c].items_in_transit) :
                            conns[c].items_in_transit[k][1] = item

\* the item has arrived at machine m
DeliveredTo(m, item) ==
    \/ Pending(m, item)
    \/ item \in Range(heap[m].output_buffer)
    \/ "collected" \in DOMAIN heap[m] /\ item \in Range(heap[m].collected)

\* C12: a splitter with the default condition and a single connection on
\* output_true, fed red and blue shapes in turn: a red shape the splitter has
\* handled is on the connection or has arrived downstream; a blue shape is on
\* no connection, at no machine downstream and not in the splitter's output
\* buffer; no update raises
C12_RedDeliveredBlueDropped ==
    /\ \A s \in 1..Len(shapes) :
          /\ shapes[s].color = "red" /\ ~Pending(TheSplitter, s)
                => \/ InTransit(1, s)
                   \/ DeliveredTo(SplitSink, s)
          /\ shapes[s].color = "blue"
                => /\ \A c \in 1..Len(conns) : ~InTransit(c, s)
                   /\ ~DeliveredTo(SplitSink, s)
                   /\ s \notin Range(heap[TheSplitter].output_buffer)
    /\ op.name = "update" => op.ret = None

C12_Witness ==
    /\ op.name = "update"
    /\ \E r \in 1..Len(shapes), b \in 1..Len(shapes) :
          /\ shapes[r].color = "red" /\ r \in Range(heap[SplitSink].collected)
          /\ shapes[b].color = "blue" /\ ~Pending(TheSplitter, b)
          /\ r < b

\* C13: update changes nothing while running is False; stop and start change
\* the running flag and nothing else, so a start after a stop resumes from
\* the state that held at the stop
C13_StoppedIsFrozen ==
    [][/\ op'.name = "update" /\ ~factory.running
            => UNCHANGED <<heap, conns, factory, shapes>>
       /\ op'.name = "stop"
            => /\ UNCHANGED <<heap, conns, shapes>>
               /\ factory' = [factory EXCEPT !.running = FALSE]
       /\ op'.name = "start"
            => /\ UNCHANGED <<heap, conns, shapes>>
               /\ factory' = [factory EXCEPT !.running = TRUE]]_vars

C13_Witness ==
    /\ op.name = "update"
    /\ ~factory.running
    /\ \E c \in 1..Len(conns) : conns[c].items_in_transit # <<>>
    /\ \E m \in Range(factory.machines) : heap[m].is_processing

\* the attributes of a machine that reset is to leave alone
ConfigOf(mach) ==
    [f \in (DOMAIN mach) \ {"input_buffer", "output_buffer", "is_processing",
                            "current_item", "current_process_time", "spawn_timer",
                            "collected", "success_count"} |-> mach[f]]

\* C14: reset sets running to False, leaves the machines, the grid, the
\* connections and the configuration of the machines as they are, and leaves
\* every machine idle with empty buffers and no current item, every
\* connection with nothing in transit, every source with spawn_timer 0 and
\* every output with nothing collected and success_count 0
C14_ResetFrame ==
    [][op'.name = "reset" =>
        /\ factory' = [factory EXCEPT !.running = FALSE]
        /\ Len(heap') = Len(heap) /\ Len(conns') = Len(conns)
        /\ \A m \in 1..Len(heap) : ConfigOf(heap'[m]) = ConfigOf(heap[m])
        /\ \A c \in 1..Len(conns) :
              [conns'[c] EXCEPT !.items_in_transit = <<>>]
                    = [conns[c] EXCEPT !.items_in_transit = <<>>]
        /\ \A m \in Range(factory.machines) :
              /\ ~heap'[m].is_processing
              /\ heap'[m].input_buffer = <<>> /\ heap'[m].output_buffer = <<>>
              /\ heap'[m].current_item = NoItem
              /\ heap'[m].machine_type = "source" => heap'[m].spawn_timer = 0
              /\ heap'[m].machine_type = "output"
                    => heap'[m].collected = <<>> /\ heap'[m].success_count = 0
        /\ \A c \in Range(factory.connections) : conns'[c].items_in_transit = <<>>]_vars

C14_Witness ==
    /\ op.name = "reset"
    /\ Len(shapes) >= 3
    /\ ~factory.running
    /\ \A c \in 1..Len(conns) : conns[c].items_in_transit = <<>>

\* the attributes of a machine that hold the state of a run
RuntimeAttributes ==
    {"input_buffer", "output_buffer", "current_process_time", "is_processing",
     "current_item", "spawn_timer", "collected", "success_count", "second_input",
     "current_loop", "current_package", "current_dict", "item_count"}

\* a machine of the same kind, place, configuration and connections, as its
\* constructor leaves it
FreshMachine(mach) ==
    [f \in DOMAIN mach |->
        IF f \in RuntimeAttributes
        THEN CreateMachineObject(mach.machine_type, mach.x, mach.y, NoKw)[f]
        ELSE mach[f]]

\* the factory of w built anew: same topology and configuration, nothing run
Fresh(w) ==
    [w EXCEPT !.heap = [m \in DOMAIN w.heap |-> FreshMachine(w.heap[m])],
              !.conns = [c \in DOMAIN w.conns |->
                            [w.conns[c] EXCEPT !.items_in_transit = <<>>]],
              !.f.running = FALSE]

\* k calls of update(dt)
RECURSIVE Run(_, _, _)
Run(w, dt, k) == IF k = 0 THEN w ELSE Run(FactoryUpdate(w, dt), dt, k - 1)

\* what a run shows: the items delivered to each machine and emitted by it,
\* the counts of the outputs, the items on each connection
Observe(w) ==
    [machines |->
        [i \in 1..Len(w.f.machines) |->
            LET mach == w.heap[w.f.machines[i]]
            IN  [delivered |-> Len(mach.input_buffer),
                 emitted |-> Len(mach.output_buffer),
                 busy |-> mach.is_processing,
                 collected |-> IF "collected" \in DOMAIN mach
                               THEN Len(mach.collected) ELSE 0,
                 success_count |-> IF "success_count" \in DOMAIN mach
                                   THEN mach.success_count ELSE 0]],
     connections |->
        [i \in 1..Len(w.f.connections) |->
            Len(w.conns[w.f.connections[i]].items_in_transit)]]

RunLength == 6

\* C15: no runtime state survives reset: after a reset, start and a sequence
\* of updates show the same deliveries, emissions and output counts as the
\* same updates of a factory newly built with the same topology and
\* configuration
C15_Original ==
    op.name = "reset" =>
        \A dt \in RunDts, k \in 0..RunLength :
            Observe(Run(Start(World), dt, k)) = Observe(Run(Start(Fresh(World)), dt, k))

\* parse as one call returns what the loop of parse leaves
ParseIsTheLoop ==
    pc = "done" =>
        Parse(code) = [line_num |-> line_num, machines |-> p_machines,
                       connections |-> p_connections, variables |-> variables,
                       error |-> error, error_line |-> error_line,
                       machine_x |-> machine_x]

\* C16: when parse reports an error the code-change handler leaves the
\* factory, its machines and connections and all runtime state as they are
\* and records the message and the line; the factory changes only after a
\* parse without error, and is then built from the parse result
C16_ErrorLeavesFactory ==
    [][op'.name = "code_change" =>
        /\ error' # NoError
              => /\ UNCHANGED <<heap, conns, factory, shapes>>
                 /\ op'.ret = [error_line |-> error_line', error_msg |-> error']
        /\ <<heap, conns, factory, shapes>>' # <<heap, conns, factory, shapes>>
              => error' = NoError
        /\ error' = NoError /\ p_machines' # <<>>
              => /\ Len(factory'.machines) = Len(p_machines')
                 /\ \A i \in 1..Len(p_machines') :
                       /\ factory'.machines[i] > Len(heap)
                       /\ heap'[factory'.machines[i]].machine_type = p_machines'[i].type
                       /\ heap'[factory'.machines[i]].x = p_machines'[i].x
                       /\ heap'[factory'.machines[i]].y = p_machines'[i].y
                 /\ Len(factory'.connections) = Len(p_connections')]_vars

C16_Witness ==
    /\ op.name = "code_change"
    /\ error # NoError
    /\ error_line = 2
    /\ factory.running
    /\ factory.machines # <<>>
    /\ \E c \in Range(factory.connections) : conns[c].items_in_transit # <<>>

\* C17: rotate leaves the rotation within 0..359 whatever integer it is
\* given, negative ones included; four times rotate(90) leaves the shape
\* with the rotation, kind, color and layers it had
C17_RotationStaysInRange ==
    [][/\ op'.name \in {"rotate", "full_turn"}
            => shapes'[op'.m].rotation \in 0..359
       /\ op'.name = "full_turn"
            => /\ shapes'[op'.m].rotation = shapes[op'.m].rotation
               /\ shapes'[op'.m].shape_type = shapes[op'.m].shape_type
               /\ shapes'[op'.m].color = shapes[op'.m].color
               /\ shapes'[op'.m].layers = shapes[op'.m].layers]_vars

C17_Witness ==
    /\ op.name = "rotate"
    /\ op.ret < 0
    /\ shapes[op.m].rotation = 270
    /\ shapes[op.m].layers # <<>>

\* C18: a shape matches its clone, and does not match its clone painted in
\* a color of the palette other than its own, whatever layers and tags it has
C18_CloneMatchesPaintedDoesNot ==
    op.name = "matches" =>
        /\ op.ret.clone
        /\ \A c \in ShapeColors \ {shapes[op.m].color} : ~op.ret.painted[c]

C18_Witness ==
    /\ op.name = "matches"
    /\ shapes[op.m].layers # <<>>
    /\ shapes[op.m].rotation # 0
    /\ DOMAIN shapes[op.m].metadata # {}

\* C19: whatever the kind of a machine, the items that reach it and the
\* values of its public attributes, update completes without raising: no
\* Factory.update ends with an exception
C19_Original == op.name = "update" => op.ret = None

\* some OutputMachine of the factory has success_count >= required_count
SomeGoalReached ==
    \E m \in Range(factory.machines) :
        heap[m].machine_type = "output" /\ heap[m].success_count >= heap[m].required_count

\* C20: Level.update advances the factory first and evaluates completion
\* afterwards in the same call: after an update that did not raise,
\* is_completed is true exactly if it was true before or some OutputMachine of
\* the factory, as the update left it, has success_count >= required_count;
\* so it becomes true in the first such update and stays true on every later
\* update, and only reset and setup make it false again
C20_CompletionLatch ==
    [][/\ (op'.name = "level_update" /\ op'.ret = None)
            => /\ \E dt \in LevelDts :
                    \E w \in {FactoryUpdate(World, dt)} :
                        /\ heap' = w.heap /\ conns' = w.conns
                        /\ factory' = w.f /\ shapes' = w.shapes
               /\ is_completed' = (is_completed \/ SomeGoalReached')
       /\ (is_completed /\ ~is_completed')
            => op'.name \in {"level_reset", "level_setup"}]_vars

\* an update in which the output received the last shape it wanted
C20_Witness ==
    /\ op.name = "level_update"
    /\ is_completed
    /\ \E m \in Range(factory.machines) :
            /\ heap[m].machine_type = "output"
            /\ heap[m].required_count = 2
            /\ heap[m].success_count = 2

\* the items of the entries of a connection, oldest first
TransitItems(c) == [i \in 1..Len(conns[c].items_in_transit) |-> conns[c].items_in_transit[i][1]]

\* what an output has taken: the items it collected, the one it holds, the
\* ones in its buffer, oldest first
TakenBy(m) ==
    heap[m].collected
        \o (IF heap[m].is_processing THEN <<heap[m].current_item>> ELSE <<>>)
        \o heap[m].input_buffer

\* everything TheMachine has sent so far, in the order it was sent
Emitted == TakenBy(TheSink) \o TransitItems(1)

\* process was called once on the current item of TheMachine and its result
\* sent: the item itself by a conveyor and by a rotator (turned once), the
\* two halves one after the other by a cutter, the package, as one item, by
\* a packer whose package is full and nothing by one whose package is not
ProcessedOnce ==
    LET mach == heap[TheMachine]
        item == mach.current_item
    IN  CASE mach.machine_type = "conveyor" ->
                Emitted' = Append(Emitted, item) /\ shapes' = shapes
          [] mach.machine_type = "rotator" ->
                /\ Emitted' = Append(Emitted, item)
                /\ shapes' = [shapes EXCEPT ![item].rotation = (@ + 90) % 360]
          [] mach.machine_type = "cutter" ->
                /\ Emitted' = Emitted \o <<Len(shapes) + 1, Len(shapes) + 2>>
                /\ Len(shapes') = Len(shapes) + 2
          [] mach.machine_type = "packer" ->
                IF mach.current_package # NoItem
                   /\ Len(shapes[mach.current_package].items) + 1 >= mach.pack_size
                THEN /\ Emitted' = Append(Emitted, mach.current_package)
                     /\ shapes'[mach.current_package].items
                            = Append(shapes[mach.current_package].items, item)
                ELSE Emitted' = Emitted

\* idle again, TheMachine takes the oldest item of its buffer if there is one
IdleThenTake ==
    LET mach == heap[TheMachine]
        next == heap'[TheMachine]
    IN  /\ next.current_process_time = 0
        /\ IF mach.input_buffer = <<>>
           THEN ~next.is_processing /\ next.current_item = NoItem
                /\ next.input_buffer = <<>>
           ELSE next.is_processing /\ next.current_item = Head(mach.input_buffer)
                /\ next.input_buffer = Tail(mach.input_buffer)

\* C21: a machine handles one item at a time.  Idle with a non-empty buffer,
\* an update takes the oldest item and sets the elapsed time to 0 and sends
\* nothing; processing, an update adds dt and, the first time the elapsed
\* time reaches processing_time, calls process once on the current item,
\* sends the result (the elements of a tuple one by one, nothing for None)
\* and goes back to idle, where it may take the next item at once
C21_OneItemAtATime ==
    [][op'.name = "update" =>
        \E dt \in MachDts :
            LET mach == heap[TheMachine]
            IN  /\ heap'[TheMachine].is_processing
                        <=> heap'[TheMachine].current_item # NoItem
                /\ IF mach.is_processing
                   THEN IF mach.current_process_time + dt < mach.processing_time
                        THEN /\ heap'[TheMachine] =
                                    [mach EXCEPT !.current_process_time = @ + dt]
                             /\ Emitted' = Emitted
                        ELSE ProcessedOnce /\ IdleThenTake
                   ELSE /\ IdleThenTake
                        /\ \A k \in DOMAIN mach \ {"current_process_time", "is_processing",
                                                   "current_item", "input_buffer"} :
                                heap'[TheMachine][k] = mach[k]
                        /\ Emitted' = Emitted]_vars

\* a cutter that has sent the two halves of a shape and holds the next one
C21_Witness ==
    /\ op.name = "update"
    /\ heap[TheMachine].machine_type = "cutter"
    /\ Len(Emitted) = 2
    /\ heap[TheMachine].is_processing
    /\ heap[TheMachine].current_process_time > 0

\* C22: a stacker takes an item of its primary buffer only when its secondary
\* buffer holds an item too, and otherwise stays idle with both buffers as
\* they are; so every item it has sent is a primary item with a secondary
\* item stacked on it
C22_Original ==
    /\ [][(/\ op'.name = "update"
           /\ ~heap[TheMachine].is_processing
           /\ (heap[TheMachine].input_buffer = <<>> \/ heap[TheMachine].second_input = <<>>))
          => /\ ~heap'[TheMachine].is_processing
             /\ heap'[TheMachine].input_buffer = heap[TheMachine].input_buffer
             /\ heap'[TheMachine].second_input = heap[TheMachine].second_input]_vars
    /\ [](\A i \in 1..Len(Emitted) : shapes[Emitted[i]].layers # <<>>)

\* everything that was sent on connection c so far, in the order it was sent
SentOn(c) == TakenBy(conns[c].to_machine) \o TransitItems(c)

\* the connections that leave TheMachine on port p
LeavingOn(p) ==
    { c \in Range(heap[TheMachine].connections_out) : conns[c].from_port = p }

\* in this step TheMachine has processed the item it held
HasProcessed ==
    /\ op'.name = "update"
    /\ heap[TheMachine].is_processing
    /\ heap'[TheMachine].current_item # heap[TheMachine].current_item

\* the port of the branch the default condition, shape.color == 'red',
\* selects for the item; the evaluation fails for an item without a color
BranchOf(item) ==
    IF IsShape(shapes[item]) /\ shapes[item].color = "red"
    THEN "output_true"
    ELSE "output_false"

\* C23: a splitter sends a processed item on the port of the branch its
\* condition selects (output_true when it is true, output_false when it is
\* false or fails) if a connection leaves on that port, and then on no other
\* port; if none does, by the default rule: on the connections of port
\* output, or to its output buffer when it has no connection at all; never
\* on the port of the other branch
C23_SelectedBranchOnly ==
    [][(HasProcessed /\ heap[TheMachine].machine_type = "splitter") =>
        LET item == heap[TheMachine].current_item
            port == IF LeavingOn(BranchOf(item)) # {}
                    THEN BranchOf(item) ELSE "output"
        IN  /\ LeavingOn(port) # {}
                => \E c \in LeavingOn(port) : SentOn(c)' = Append(SentOn(c), item)
            /\ \A c \in LeavingOn(port) :
                    SentOn(c)' \in {SentOn(c), Append(SentOn(c), item)}
            /\ \A c \in Range(heap[TheMachine].connections_out) \ LeavingOn(port) :
                    SentOn(c)' = SentOn(c)
            /\ heap'[TheMachine].output_buffer =
                    IF heap[TheMachine].connections_out = <<>>
                    THEN Append(heap[TheMachine].output_buffer, item)
                    ELSE heap[TheMachine].output_buffer]_vars

\* a splitter wired on output_false and output has sent a red shape on
\* output and a package, for which the condition fails, on output_false
C23_Witness ==
    /\ heap[TheMachine].machine_type = "splitter"
    /\ \E f \in LeavingOn("output_false"), d \in LeavingOn("output") :
          /\ \E i \in 1..Len(SentOn(f)) : ~IsShape(shapes[SentOn(f)[i]])
          /\ \E i \in 1..Len(SentOn(d)) : shapes[SentOn(d)[i]].color = "red"

\* C24: when a machine, a splitter included, sends an item on a port, every
\* connection that leaves it on that port gets the item as one new entry,
\* and no connection on another port gets it; the port is output, and for a
\* splitter the port of the selected branch when a connection leaves on it
C24_Original ==
    [][HasProcessed =>
        LET item == heap[TheMachine].current_item
            port == IF /\ heap[TheMachine].machine_type = "splitter"
                       /\ LeavingOn(BranchOf(item)) # {}
                    THEN BranchOf(item) ELSE "output"
        IN  \A c \in Range(heap[TheMachine].connections_out) :
                SentOn(c)' = IF c \in LeavingOn(port)
                             THEN Append(SentOn(c), item)
                             ELSE SentOn(c)]_vars

\* the entries of connection c that an update by dt delivers, and the ones
\* it keeps, as that update leaves them
DueIn(c, dt) ==
    SelectSeq(conns[c].items_in_transit,
              LAMBDA e : e[2] + dt * conns[c].speed >= TransitDone)

KeptIn(c, dt) ==
    LET kept == SelectSeq(conns[c].items_in_transit,
                          LAMBDA e : e[2] + dt * conns[c].speed < TransitDone)
    IN  [i \in 1..Len(kept) |-> <<kept[i][1], kept[i][2] + dt * conns[c].speed>>]

\* C25: between updates the progress of every entry of every connection is
\* at least 0 and less than 1.  An update by dt adds dt * speed to every
\* entry; an entry that reaches 1 is removed and its item handed to the
\* receiving machine, once, in that update; an entry sent in the update
\* starts at 0 and has had dt * speed added to it
C25_ProgressBelowOne ==
    /\ [](\A c \in 1..Len(conns) : \A i \in 1..Len(conns[c].items_in_transit) :
            /\ conns[c].items_in_transit[i][2] >= 0
            /\ conns[c].items_in_transit[i][2] < TransitDone)
    /\ [][op'.name = "update" =>
            \E dt \in MachDts :
                LET now == conns'[1].items_in_transit
                    n == Len(KeptIn(1, dt))
                IN  /\ Len(now) >= n
                    /\ SubSeq(now, 1, n) = KeptIn(1, dt)
                    /\ \A i \in (n + 1)..Len(now) :
                            /\ now[i][2] = 0 + dt * conns[1].speed
                            /\ \A j \in 1..Len(Emitted) : Emitted[j] # now[i][1]
                    /\ TakenBy(TheSink)' = TakenBy(TheSink)
                            \o [i \in 1..Len(DueIn(1, dt)) |-> DueIn(1, dt)[i][1]]]_vars

\* two entries on the connection, the older one further along, after an
\* update that delivered an item
C25_Witness ==
    /\ op.name = "update"
    /\ Len(conns[1].items_in_transit) = 2
    /\ conns[1].items_in_transit[1][2] > conns[1].items_in_transit[2][2]
    /\ TakenBy(TheSink) # <<>>

\* the items machine m holds, oldest first
HeldBy(m) ==
    (IF heap[m].is_processing THEN <<heap[m].current_item>> ELSE <<>>)
        \o heap[m].input_buffer

\* the items of the line that were sent on connection k, which runs from
\* machine k to machine k + 1, in the order in which they will reach, or
\* have reached, the output
RECURSIVE Beyond(_)
Beyond(k) ==
    IF k = LineLength
    THEN heap[LineLength].collected
    ELSE Beyond(k + 1) \o HeldBy(k + 1) \o TransitItems(k)

IsPrefix(s, t) == Len(s) <= Len(t) /\ SubSeq(t, 1, Len(s)) = s

\* the items of seq that the source made (it makes white shapes, the shapes
\* handed to the conveyor are red and blue)
SpawnedOf(seq) == SelectSeq(seq, LAMBDA i : shapes[i].color = "white")

\* C26: items sent on a connection are delivered in the order they were
\* sent, and the machines of a line pass them on in the order they receive
\* them: an update leaves the items sent on each connection of the line in
\* the order they had and adds the new ones behind them, whatever dt is; so
\* the output collects the shapes of the source in the order they were made
C26_OrderKept ==
    /\ [][op'.name = "update" =>
            \A k \in 1..LineLength : IsPrefix(Beyond(k), Beyond(k)')]_vars
    /\ [](\A i, j \in 1..Len(SpawnedOf(heap[LineLength].collected)) :
            i < j => SpawnedOf(heap[LineLength].collected)[i]
                        < SpawnedOf(heap[LineLength].collected)[j])

\* the output has collected a shape of the source and a shape handed to the
\* conveyor, and a machine of the line holds two items, one behind the
\* other
C26_Witness ==
    /\ Len(SpawnedOf(heap[LineLength].collected)) >= 1
    /\ Len(heap[LineLength].collected) >= 2
    /\ \E k \in 2..LineLength - 1 : Len(HeldBy(k)) >= 2

\* the entries that were on connection c before the update are, after it,
\* the first entries of c, each with dt more progress, but for those that
\* were delivered; the entries behind them were sent in the update
AdvancedOnce(c, dt) ==
    /\ IsPrefix(KeptIn(c, dt), conns'[c].items_in_transit)
    /\ \A i \in Len(KeptIn(c, dt)) + 1..Len(conns'[c].items_in_transit) :
            conns'[c].items_in_transit[i][2] \in {0, dt}

\* C27: in each update of a running factory, the items in flight on every
\* connection of Factory.connections are advanced exactly once, by dt times
\* the speed of the factory
C27_Original ==
    [][op'.name = "update" /\ factory.running =>
        \A dt \in TickDts : \A k \in 1..Len(factory.connections) :
            AdvancedOnce(factory.connections[k], dt * factory.speed)]_vars

\* the place of machine m in Factory.machines
PlaceOf(m) == CHOOSE i \in 1..Len(factory.machines) : factory.machines[i] = m

\* the items that have reached machine m of the line, in the order in which
\* they reached it
ReachedBy(m) == Beyond(m) \o HeldBy(m)

\* the items that reach machine m in this step
Arriving(m) == SubSeq(ReachedBy(m)', Len(ReachedBy(m)) + 1, Len(ReachedBy(m)'))

IsSuffix(s, t) ==
    Len(s) <= Len(t) /\ SubSeq(t, Len(t) - Len(s) + 1, Len(t)) = s

\* C28: Factory.update updates the machines in the order in which they were
\* added, and a machine's outgoing connections are advanced at the end of
\* its own update: in every update, an item delivered to a machine that was
\* added after the sender is taken in the same update when the receiver is
\* idle with an empty buffer, and the items delivered to a machine that was
\* added before the sender all wait in its buffer until the next update
C28_UpdateOrder ==
    [][op'.name = "update" =>
        \A k \in 1..LineLength - 1 :
            Arriving(k + 1) # <<>> =>
                IF PlaceOf(k) < PlaceOf(k + 1)
                THEN (~heap[k + 1].is_processing /\ heap[k + 1].input_buffer = <<>>)
                        => /\ heap'[k + 1].is_processing
                           /\ heap'[k + 1].current_item = Arriving(k + 1)[1]
                           /\ heap'[k + 1].input_buffer = Tail(Arriving(k + 1))
                ELSE IsSuffix(Arriving(k + 1), heap'[k + 1].input_buffer)]_vars

\* in a factory that updates the source first, the first shape of the
\* source was sent a second ago and the update that has delivered it to the
\* idle conveyor has made the conveyor take it
C28_Witness ==
    /\ op.name = "update"
    /\ PlaceOf(1) < PlaceOf(2)
    /\ Len(shapes) = 1 /\ shapes[1].color = "white"
    /\ heap[1].spawn_timer = TransitDone
    /\ heap[2].is_processing /\ heap[2].current_item = 1
    /\ heap[2].current_process_time = 0


\* the item the output has finished in this step is the target shape's equal
Hit(item) ==
    /\ heap[TheMachine].target_shape # NoItem
    /\ IsShape(shapes[item])
    /\ shapes[item].shape_type = shapes[heap[TheMachine].target_shape].shape_type
    /\ shapes[item].color = shapes[heap[TheMachine].target_shape].color
    /\ shapes[item].rotation = shapes[heap[TheMachine].target_shape].rotation
    /\ shapes[item].layers = shapes[heap[TheMachine].target_shape].layers

\* C29: every item an OutputMachine processes is appended to collected and is
\* never emitted on a connection or to the output buffer; success_count goes
\* up by one exactly when the item is a Shape equal to the target shape in
\* kind, color, rotation and layers, and is unchanged otherwise; so
\* success_count never exceeds len(collected), and only reset and set_target
\* make it smaller
C29_OutputCounts ==
    /\ [][op'.name = "update" =>
            IF /\ heap[TheMachine].is_processing
               /\ heap'[TheMachine].current_item # heap[TheMachine].current_item
            THEN /\ heap'[TheMachine].collected =
                        Append(heap[TheMachine].collected, heap[TheMachine].current_item)
                 /\ heap'[TheMachine].success_count =
                        heap[TheMachine].success_count
                            + (IF Hit(heap[TheMachine].current_item) THEN 1 ELSE 0)
            ELSE /\ heap'[TheMachine].collected = heap[TheMachine].collected
                 /\ heap'[TheMachine].success_count = heap[TheMachine].success_count]_vars
    /\ [][heap'[TheMachine].success_count < heap[TheMachine].success_count
            => op'.name \in {"reset", "set_target"}]_vars
    /\ [](/\ heap[TheMachine].output_buffer = <<>>
          /\ \A c \in 1..Len(conns) : conns[c].items_in_transit = <<>>
          /\ TakenBy(TheSink) = <<>>
          /\ heap[TheMachine].success_count <= Len(heap[TheMachine].collected))

\* the output has collected a shape that counted, a shape of another color
\* and a package, which did not
C29_Witness ==
    /\ heap[TheMachine].success_count = 1
    /\ Len(heap[TheMachine].collected) = 3
    /\ \E i \in 1..3 : ~IsShape(shapes[heap[TheMachine].collected[i]])

\* the shapes the packer has processed, in the order in which they arrived:
\* the shapes made so far, which were all handed to the packer in the order
\* in which they were made, but for those it still holds
Packed ==
    SelectSeq([i \in 1..Len(shapes) |-> i],
              LAMBDA i : IsShape(shapes[i]) /\ i \notin Range(HeldBy(TheMachine)))

\* the shapes of the package the packer is filling
Filling ==
    IF heap[TheMachine].current_package = NoItem
    THEN <<>>
    ELSE shapes[heap[TheMachine].current_package].items

\* C30: a packer of pack size n has emitted one package for every n shapes
\* it has processed and nothing else; the k-th package holds the k-th group
\* of n shapes in the order of their arrival, and the shapes processed since
\* the last full group are in the package being filled, which is a new one;
\* so every shape is in exactly one package
C30_GroupsOfN ==
    LET n == heap[TheMachine].pack_size
    IN  /\ Len(Emitted) = Len(Packed) \div n
        /\ \A k \in 1..Len(Emitted) :
                /\ ~IsShape(shapes[Emitted[k]])
                /\ shapes[Emitted[k]].items = SubSeq(Packed, (k - 1) * n + 1, k * n)
        /\ Filling = SubSeq(Packed, Len(Emitted) * n + 1, Len(Packed))
        /\ heap[TheMachine].current_package \notin Range(Emitted)
        /\ heap[TheMachine].output_buffer = <<>>

\* a packer of pack size 2 has emitted two packages and holds the first
\* shape of a third
C30_Witness ==
    /\ heap[TheMachine].pack_size = 2
    /\ Len(Emitted) = 2
    /\ Len(Filling) = 1

\* C31: ComprehensionMachine.process returns a new package and transforms
\* clones: the update in which the machine finishes a package leaves the
\* package and every shape that existed before as they were, and the shapes
\* of the package it emits are not shapes of the package it was given,
\* unless evaluation raised for them
C31_Original ==
    [][(/\ op'.name = "update"
        /\ heap[TheMachine].is_processing
        /\ heap'[TheMachine].current_item # heap[TheMachine].current_item)
        => /\ \A i \in 1..Len(shapes) : shapes'[i] = shapes[i]
           /\ (heap[TheMachine].transform_code # NoSuchMethod
                    /\ heap[TheMachine].filter_code # NoSuchMethod)
                => \A c \in 1..Len(conns) : \A k \in 1..Len(conns'[c].items_in_transit) :
                      Range(shapes'[conns'[c].items_in_transit[k][1]].items)
                        \cap Range(shapes[heap[TheMachine].current_item].items) = {}]_vars

\* C32: the k-th machine entry of parse, counted from 0, has x = 1 + 2k and
\* y = 3, whatever lines lie between the assignments; so the handler, which
\* clears the factory first, adds every machine of the parse result, each on
\* a cell of its own, and builds every connection of the parse result
\* between the machines built for the entries it names
C32_Layout ==
    /\ [](\A k \in 1..Len(p_machines) :
            p_machines[k].x = 1 + 2 * (k - 1) /\ p_machines[k].y = 3)
    /\ [][(op'.name = "rebuild" /\ error = NoError /\ p_machines # <<>>) =>
            /\ Len(factory'.machines) = Len(p_machines)
            /\ \A k \in 1..Len(p_machines) :
                    /\ factory'.machines[k] > Len(heap)
                    /\ heap'[factory'.machines[k]].machine_type = p_machines[k].type
                    /\ Pos(heap'[factory'.machines[k]]) = <<1 + 2 * (k - 1), 3>>
                    /\ factory'.grid[<<1 + 2 * (k - 1), 3>>] = factory'.machines[k]
            /\ Len(factory'.connections) = Len(p_connections)
            /\ \A j \in 1..Len(p_connections) :
                    /\ conns'[factory'.connections[j]].from_machine
                            = factory'.machines[p_connections[j][1] + 1]
                    /\ conns'[factory'.connections[j]].to_machine
                            = factory'.machines[p_connections[j][2] + 1]]_vars

\* a script with a comment between its two assignments and a connect line
\* has been parsed and built over a factory that held a machine at (1, 3)
C32_Witness ==
    /\ op.name = "rebuild"
    /\ Len(code) = MaxLines /\ LineClass(Strip(code[2])) = "skip"
    /\ Len(p_machines) = 2
    /\ Len(factory.machines) = 2
    /\ Len(heap) = 3

\* the 0-based index of the last machine entry so far that was assigned to
\* name
LatestOf(name) ==
    (CHOOSE k \in 1..Len(p_machines) :
        /\ p_machines[k].var_name = name
        /\ \A j \in (k + 1)..Len(p_machines) : p_machines[j].var_name # name) - 1

\* C33: an assignment to a name that was assigned before appends one more
\* machine entry and the earlier entry stays; a connect directive records
\* the indices of the most recent assignments of its two names, and the
\* connections recorded before keep the indices they have
C33_Redeclaration ==
    [][/\ IsPrefix(p_machines, p_machines')
       /\ IsPrefix(p_connections, p_connections')
       /\ Len(p_machines') > Len(p_machines)
            => /\ p_machines' = Append(p_machines, p_machines'[Len(p_machines')])
               /\ p_machines'[Len(p_machines')].var_name = AssignedName(code[line_num + 1])
               /\ variables'[AssignedName(code[line_num + 1])] = Len(p_machines)
       /\ Len(p_connections') > Len(p_connections)
            => p_connections' =
                    Append(p_connections, <<LatestOf(ConnectFrom(code[line_num + 1])),
                                            LatestOf(ConnectTo(code[line_num + 1]))>>)]_vars

\* a is connected to b, assigned again and connected to b again: the first
\* connection names entry 0, the second names entry 2, and both entries of
\* a are in machines
C33_Witness ==
    /\ p_connections = << <<0, 1>>, <<2, 1>> >>
    /\ Len(p_machines) = 3
    /\ p_machines[1].var_name = p_machines[3].var_name

\* C34: the machine built from a parsed Rotator(d) declaration rotates every
\* shape it processes by d degrees: the update in which the rotator built
\* for the second entry of the script finishes a shape adds the d of that
\* entry to the rotation of the shape, modulo 360
C34_Original ==
    [][(/\ op'.name = "update"
        /\ Len(factory.machines) = 3 /\ p_machines[2].type = "rotator"
        /\ heap[factory.machines[2]].is_processing
        /\ heap'[factory.machines[2]].current_item
                # heap[factory.machines[2]].current_item)
        => shapes'[heap[factory.machines[2]].current_item].rotation
            = (shapes[heap[factory.machines[2]].current_item].rotation
                + p_machines[2].rotation) % 360]_vars

\* the items machine m holds or has collected
RECURSIVE PlacesOfMachines(_)
PlacesOfMachines(m) ==
    IF m = 0
    THEN <<>>
    ELSE PlacesOfMachines(m - 1) \o HeldBy(m)
            \o (IF heap[m].machine_type = "output" THEN heap[m].collected ELSE <<>>)

\* the items in flight on the connections up to the c-th
RECURSIVE PlacesOfConnections(_)
PlacesOfConnections(c) ==
    IF c = 0 THEN <<>> ELSE PlacesOfConnections(c - 1) \o TransitItems(c)

\* every place an item can be in: input buffers, being processed, in flight,
\* collected
AllPlaces == PlacesOfMachines(Len(heap)) \o PlacesOfConnections(Len(conns))

\* C35: in a running factory whose machines other than outputs are enabled
\* pass-through machines with exactly one outgoing connection on port
\* "output", no item is lost or duplicated: the shapes the sources have made
\* are as many as the items in input buffers, being processed, in flight and
\* collected by outputs, and each shape is in exactly one of these places
C35_Conservation ==
    /\ Len(AllPlaces) = Len(shapes)
    /\ \A i \in 1..Len(shapes) : \E k \in 1..Len(AllPlaces) : AllPlaces[k] = i

\* a ring holds two shapes that have gone round, or an output has collected
\* a shape while others are on their way
C35_Witness ==
    /\ Len(shapes) >= 2
    /\ \E m \in 1..Len(heap) :
        /\ heap[m].machine_type # "source"
        /\ heap[m].is_processing
    /\ \E c \in 1..Len(conns) : conns[c].items_in_transit # <<>>
    /\ \/ \E m \in 1..Len(heap) :
            heap[m].machine_type = "output" /\ heap[m].collected # <<>>
       \/ \A m \in 1..Len(heap) : heap[m].machine_type # "output"

\* the items kept in the output buffers of the machines up to the m-th
RECURSIVE Unsent(_)
Unsent(m) ==
    IF m = 0 THEN <<>> ELSE Unsent(m - 1) \o heap[m].output_buffer

\* every item that is stored somewhere
Stored == Range(AllPlaces) \cup Range(Unsent(Len(heap)))

\* the update being taken ends the processing of the item of machine m,
\* which sends it on (an output keeps what it processes)
Finishes(m) ==
    /\ op'.name = "update"
    /\ heap[m].machine_type # "output"
    /\ heap[m].is_processing
    /\ heap'[m].current_item # heap[m].current_item

\* C36: when a machine with no outgoing connection sends an item, the item
\* is appended to its output buffer, and nothing but a reset takes an item
\* out of an output buffer; when a machine whose outgoing connections are
\* all on other ports than the emitting one sends an item, the item is
\* stored nowhere: no buffer, no connection and no output holds it
C36_SendStores ==
    /\ [][\A m \in 1..Len(heap) :
            /\ Finishes(m) /\ heap[m].connections_out = <<>>
                => heap'[m].output_buffer
                        = Append(heap[m].output_buffer, heap[m].current_item)
            /\ heap'[m].output_buffer # heap[m].output_buffer
                => \/ op'.name = "reset" /\ heap'[m].output_buffer = <<>>
                   \/ /\ Finishes(m) /\ heap[m].connections_out = <<>>
                      /\ IsPrefix(heap[m].output_buffer, heap'[m].output_buffer)]_vars
    /\ [][/\ Finishes(TheMachine)
          /\ heap[TheMachine].connections_out # <<>>
          /\ \A c \in Range(heap[TheMachine].connections_out) :
                conns[c].from_port # "output"
          => /\ heap[TheMachine].current_item \notin Stored'
             /\ heap'[TheMachine].output_buffer = heap[TheMachine].output_buffer
             /\ conns' = conns]_vars

\* the conveyor kept a first item when it had no connection and, wired on
\* another port than "output", lost a second one
C36_Witness ==
    /\ op.name = "update"
    /\ heap[TheMachine].output_buffer # <<>>
    /\ heap[TheMachine].connections_out # <<>>
    /\ \A c \in 1..Len(conns) : conns[c].from_port # "output"
    /\ \E i \in 1..Len(shapes) : i \notin Stored

\* the target shape of the output
TheTarget == shapes[heap[TheSink].target_shape]

\* how many items of seq match the target
RECURSIVE MatchCount(_)
MatchCount(seq) ==
    IF seq = <<>>
    THEN 0
    ELSE (IF Matches(shapes[Head(seq)], TheTarget) THEN 1 ELSE 0) + MatchCount(Tail(seq))

\* the shapes handed to the cutter so far that match the target
FedHits == { i \in Originals(World) : Matches(shapes[i], TheTarget) }

\* C37: both halves of a cut match the uncut shape, whose attributes the
\* cut leaves as they were; so behind a cutter an output whose target equals
\* the shapes handed to the cutter counts two successes for each of them:
\* its success_count, the halves on their way to it and twice the shapes
\* the cutter still holds add up to twice the shapes handed over
C37_HalvesMatch ==
    /\ [](\A i \in 1..Len(shapes) : \A half \in 1..2 :
                Matches(Cut(shapes[i])[half], shapes[i]))
    /\ [][Finishes(TheMachine) =>
            \E x \in {heap[TheMachine].current_item} :
                /\ shapes' = shapes \o Cut(shapes[x])
                /\ \A half \in 1..2 :
                    /\ shapes'[Len(shapes) + half].metadata["half"]
                            = <<"left", "right">>[half]
                    /\ shapes'[Len(shapes) + half].size = shapes[x].size \div 2]_vars
    /\ [](2 * Cardinality(FedHits)
            = heap[TheSink].success_count
                + MatchCount(TransitItems(1) \o HeldBy(TheSink))
                + 2 * MatchCount(HeldBy(TheMachine)))

\* two shapes equal to the target went through the cutter and the output
\* counts four
C37_Witness ==
    /\ Cardinality(FedHits) = 2
    /\ heap[TheSink].success_count = 4
    /\ Len(heap[TheSink].collected) = 4
    /\ \E i \in 1..Len(shapes) : shapes[i].layers # <<>>

\* C38: in playing mode with a user logged in, every GameEngine.update made
\* while the level is completed calls the level-completed handler again,
\* which saves the progress once more; the progress is saved by nothing
\* else, and after the level is reset or another one is loaded only once
\* the level is completed again
C38_HandlerEachUpdate ==
    /\ [][/\ op'.name = "engine_update"
          /\ Playing
          /\ engine.current_user # None
          /\ is_completed
          => engine'.saves = engine.saves + 1]_vars
    /\ [][engine'.saves # engine.saves
          => /\ op'.name = "engine_update"
             /\ Playing
             /\ engine.current_user # None
             /\ is_completed'
             /\ engine'.saves = engine.saves + 1]_vars
    /\ [][op'.name \in {"level_reset", "load_level"} => ~is_completed']_vars

\* the progress of a level that was completed once, and never reset since
\* its shapes were made, has been saved three times
C38_Witness ==
    /\ op.name = "engine_update"
    /\ engine.saves = 3
    /\ is_completed
    /\ Len(heap) = 2
    /\ Len(AllPlaces) = Len(shapes) - 1
    /\ \E m \in 1..Len(heap) :
        /\ heap[m].machine_type = "output"
        /\ heap[m].success_count >= heap[m].required_count

\* C39: after every update, receive and reset, a machine is processing
\* exactly when it has a current item, and while it is processing its
\* current_process_time is at least 0 and below its processing_time
C39_Original ==
    \A m \in 1..Len(heap) :
        /\ heap[m].is_processing <=> heap[m].current_item # NoItem
        /\ heap[m].is_processing =>
                /\ 0 <= heap[m].current_process_time
                /\ heap[m].current_process_time < heap[m].processing_time

====
